---- MODULE Spec2Model ----
(***************************************************************************)
(* Bounded graph traversal and subgraph assembly of the HASH graph store   *)
(* (apps/hash-graph/lib/graph/src/store/postgres): the query entry points  *)
(* get_entity, get_entity_type and get_property_type, the per-kind         *)
(* traversal loops, and the edge resolvers they call.                      *)
(*                                                                         *)
(* A store is a set of relations (temporal metadata rows and reference     *)
(* tables).  A query is run against an unchanged store, and may be run a   *)
(* second time to compare the two results.                                 *)
(***************************************************************************)
EXTENDS Integers, Sequences, FiniteSets, TLC

VARIABLES
    store,               \* the relations of the backing store
    query,               \* the StructuralQuery being answered
    pc,                  \* position of the query task
    entity_queue,        \* traverse_entities: entity_queue
    entity_type_queue,   \* traverse_entities / traverse_entity_types: entity_type_queue
    property_type_queue, \* traverse_entity_types / traverse_property_types
    data_type_queue,     \* traverse_property_types: data_type_queue
    traversal_context,   \* TraversalContext: ids scheduled for payload fetch
    subgraph,            \* Subgraph: vertices, edges, roots
    last_rows,           \* rows the entity edge resolver returned in the last layer
    run,                 \* 1 = first evaluation of the query, 2 = re-query
    first_result,        \* subgraph returned by the first evaluation
    failure,             \* the store fault that ended the query, if any
    transactions,        \* the write operations in progress, one per writer
    reads,               \* the store reads of the last pass of a traversal loop
    metaversion,         \* engine: the Metaversion of a batch
    new_state,           \* engine: a second Metaversion, the argument of update
    pool,                \* engine: the messages of the pool, each with its recipients
    message_map,         \* engine: MessageMap.inner, once MessageMap::new has run
    sim_packages,        \* engine: the SimPackageArgs of a simulation run
    overflow_checks,     \* engine: whether the build panics on integer overflow
    call                 \* engine: the last call made and what it returned

graph_vars == <<store, query, pc, entity_queue, entity_type_queue, property_type_queue,
                data_type_queue, traversal_context, subgraph, last_rows, run, first_result,
                failure, transactions, reads>>

engine_vars == <<metaversion, new_state, pool, message_map, sim_packages, overflow_checks,
                 call>>

vars == <<graph_vars, engine_vars>>

(***************************************************************************)
(* Bounds of the model.                                                    *)
(***************************************************************************)
\* Largest sum of the four resolve depths of a query.
MaxDepthSum == 2
\* Timestamps are 0 .. MaxTime; MaxTime + 1 stands for an unbounded upper end.
MaxTime == 1

Inf == MaxTime + 1
Timestamps == 0 .. MaxTime

\* Option: None is the empty sequence, Some(x) the sequence <<x>>.
None == <<>>
Some(x) == <<x>>

Max(a, b) == IF a >= b THEN a ELSE b
Min(a, b) == IF a <= b THEN a ELSE b

(***************************************************************************)
(* Temporal intervals: half-open ranges [lo, hi) of the variable or pinned *)
(* axis, with the range operators the resolvers' SQL uses.                 *)
(***************************************************************************)
Interval(lo, hi) == [lo |-> lo, hi |-> hi]
Intervals == {Interval(lo, hi) : lo \in Timestamps, hi \in 1 .. Inf} \
                {i \in [lo : Timestamps, hi : 1 .. Inf] : i.lo >= i.hi}

\* `a && b`
overlaps(a, b) == a.lo < b.hi /\ b.lo < a.hi
\* `a * b`; only used on overlapping ranges
intersect(a, b) == Interval(Max(a.lo, b.lo), Min(a.hi, b.hi))
\* `a @> t`
contains(a, t) == a.lo <= t /\ t < a.hi
\* `lower(a)`
lower(a) == a.lo
IsSubinterval(a, b) == b.lo <= a.lo /\ a.hi <= b.hi

\* All enumerations of a finite set as a sequence.
Orderings(S) ==
    {f \in [1 .. Cardinality(S) -> S] : \A x \in S : \E i \in DOMAIN f : f[i] = x}

\* One enumeration of a set, and the same one backwards.
RECURSIVE SetToSeq(_)
SetToSeq(S) ==
    IF S = {} THEN <<>>
    ELSE CHOOSE s \in {<<x>> \o SetToSeq(T) : <<x, T>> \in
                        {<<y, S \ {y}>> : y \in {CHOOSE z \in S : TRUE}}} : TRUE

RECURSIVE SetToSeqReversed(_)
SetToSeqReversed(S) ==
    IF S = {} THEN <<>>
    ELSE CHOOSE s \in {SetToSeqReversed(T) \o <<x>> : <<x, T>> \in
                        {<<y, S \ {y}>> : y \in {CHOOSE z \in S : TRUE}}} : TRUE

\* The order in which a store read returns its rows, or a hash map yields
\* its keys: one enumeration of the set, or its reverse.
RowOrder(S, reversed) == IF reversed THEN SetToSeqReversed(S) ELSE SetToSeq(S)

Range(s) == {s[i] : i \in DOMAIN s}

(***************************************************************************)
(* Identifiers.  An ontology vertex id (base url + revision) is one atom;  *)
(* an entity vertex id is a base id (owner + uuid, one atom) and a         *)
(* revision timestamp.                                                     *)
(***************************************************************************)
Entities == {"E1", "E2", "E3"}
EntityTypes == {"TA", "TB", "TC", "TD"}
PropertyTypes == {"P1", "P2", "P3"}
DataTypes == {"D1", "D2"}

EntityVertexId(base_id, revision_id) == [base_id |-> base_id, revision_id |-> revision_id]
EntityIdWithInterval(entity_id, interval) == [entity_id |-> entity_id, interval |-> interval]
EntityEditionId(entity, n) == <<entity, n>>

TimeAxis == {"DecisionTime", "TransactionTime"}
EdgeDirection == {"Outgoing", "Incoming"}
KnowledgeGraphEdgeKind == {"HasLeftEntity", "HasRightEntity"}
OntologyEdgeKind == {"InheritsFrom", "ConstrainsValuesOn", "ConstrainsPropertiesOn",
                     "ConstrainsLinksOn", "ConstrainsLinkDestinationsOn"}
SharedEdgeKind == {"IsOfType"}

(***************************************************************************)
(* GraphResolveDepths and its decrement.                                   *)
(***************************************************************************)
GraphResolveDepths ==
    [data_type_resolve_depth : 0 .. MaxDepthSum,
     property_type_resolve_depth : 0 .. MaxDepthSum,
     entity_type_resolve_depth : 0 .. MaxDepthSum,
     entity_resolve_depth : 0 .. MaxDepthSum]

DepthSum(d) == d.data_type_resolve_depth + d.property_type_resolve_depth
               + d.entity_type_resolve_depth + d.entity_resolve_depth

zeroed == [data_type_resolve_depth |-> 0, property_type_resolve_depth |-> 0,
           entity_type_resolve_depth |-> 0, entity_resolve_depth |-> 0]

\* The counter an edge kind consumes: the one of its target's kind.
DepthCounter(edge_kind) ==
    CASE edge_kind \in {"InheritsFrom", "ConstrainsLinksOn",
                        "ConstrainsLinkDestinationsOn", "IsOfType"}
            -> "entity_type_resolve_depth"
      [] edge_kind = "ConstrainsPropertiesOn" -> "property_type_resolve_depth"
      [] edge_kind = "ConstrainsValuesOn" -> "data_type_resolve_depth"
      [] edge_kind \in KnowledgeGraphEdgeKind -> "entity_resolve_depth"

\* Some(new depths) or None.
decrement_depth_for_edge(depths, edge_kind, direction) ==
    IF depths[DepthCounter(edge_kind)] = 0
    THEN None
    ELSE Some([depths EXCEPT ![DepthCounter(edge_kind)] = @ - 1])

(***************************************************************************)
(* The store.  entity_temporal_metadata holds one row per entity edition   *)
(* and bitemporal rectangle; the reference tables hold one row per edge.   *)
(***************************************************************************)
MetadataRow(entity, n, decision_time, transaction_time) ==
    [entity |-> entity, edition |-> EntityEditionId(entity, n),
     decision_time |-> decision_time, transaction_time |-> transaction_time]

\* Histories an entity can have: created at time 0, created at time c, or
\* created at time 0 and updated at time c (which closes the first edition
\* and opens a second one).
EntityHistories(entity, c) ==
    {{MetadataRow(entity, 1, Interval(0, Inf), Interval(0, Inf))},
     {MetadataRow(entity, 1, Interval(c, Inf), Interval(c, Inf))},
     {MetadataRow(entity, 1, Interval(0, Inf), Interval(0, c)),
      MetadataRow(entity, 1, Interval(0, c), Interval(c, Inf)),
      MetadataRow(entity, 2, Interval(c, Inf), Interval(c, Inf))}}

\* The link data an entity can be created with: none, or a left and a
\* right entity.
LinkData(entity) ==
    CASE entity = "E1" -> {None, <<"E3", "E2">>, <<"E1", "E1">>, <<"E2", "E2">>}
      [] entity = "E2" -> {None, <<"E1", "E3">>}
      [] OTHER -> {None}

EmptyStore ==
    [ontology_ids |-> {},
     entity_temporal_metadata |-> {},
     entity_is_of_type |-> {},
     entity_has_left_entity |-> {},
     entity_has_right_entity |-> {},
     entity_type_inherits_from |-> {},
     entity_type_constrains_links_on |-> {},
     entity_type_constrains_link_destinations_on |-> {},
     entity_type_constrains_properties_on |-> {},
     property_type_constrains_properties_on |-> {},
     property_type_constrains_values_on |-> {}]

\* Stores of the knowledge graph: three entities with their histories and
\* links, over a small fixed ontology.  The first edition of an entity is
\* of type TA, an update makes it of type TB.
KnowledgeStores ==
    {[EmptyStore EXCEPT
        !.ontology_ids = {"TA", "TB", "P1", "D1"},
        !.entity_temporal_metadata = h1 \cup h2 \cup h3,
        !.entity_is_of_type =
            {<<m.edition, IF m.edition[2] = 1 THEN "TA" ELSE "TB">> : m \in h1 \cup h2 \cup h3},
        !.entity_has_left_entity =
            {<<e, link[e][1]>> : e \in {x \in Entities : link[x] # None}},
        !.entity_has_right_entity =
            {<<e, link[e][2]>> : e \in {x \in Entities : link[x] # None}},
        !.entity_type_inherits_from = {<<"TA", "TB">>}]
     : h1 \in UNION {EntityHistories("E1", c) : c \in 1 .. MaxTime},
       h2 \in EntityHistories("E2", 1),
       h3 \in {{MetadataRow("E3", 1, Interval(0, Inf), Interval(0, Inf))}},
       link \in {f \in [Entities -> {None} \cup (Entities \X Entities)] :
                    \A e \in Entities : f[e] \in LinkData(e)}}

\* Stores of entity types: inheritance with a diamond, a self-edge and a
\* two-cycle, link constraints, and property constraints.
EntityTypeStores ==
    {[EmptyStore EXCEPT
        !.ontology_ids = EntityTypes \cup {"P1", "P2", "D1"},
        !.entity_type_inherits_from = inh,
        !.entity_type_constrains_links_on = lnk[1],
        !.entity_type_constrains_link_destinations_on = lnk[2],
        !.entity_type_constrains_properties_on = cpo,
        !.property_type_constrains_properties_on = {<<"P1", "P2">>},
        !.property_type_constrains_values_on = {<<"P1", "D1">>}]
     : inh \in SUBSET {<<"TA", "TB">>, <<"TA", "TC">>, <<"TB", "TD">>, <<"TC", "TD">>,
                      <<"TB", "TA">>, <<"TA", "TA">>},
       lnk \in {<<{}, {}>>, <<{<<"TA", "TB">>}, {<<"TA", "TC">>}>>},
       cpo \in {{}, {<<"TA", "P1">>, <<"TB", "P1">>}}}

\* Stores of property types and data types.
PropertyTypeStores ==
    {[EmptyStore EXCEPT
        !.ontology_ids = PropertyTypes \cup DataTypes,
        !.property_type_constrains_properties_on = cpo,
        !.property_type_constrains_values_on = cvo]
     : cpo \in SUBSET {<<"P1", "P2">>, <<"P1", "P3">>, <<"P2", "P1">>},
       cvo \in SUBSET {<<"P1", "D1">>, <<"P1", "D2">>, <<"P2", "D1">>}}

(***************************************************************************)
(* Queries: a filter (opaque: the set of records it accepts), the resolve  *)
(* depths, and the resolved temporal axes.                                 *)
(***************************************************************************)
DepthVectors == {d \in GraphResolveDepths : DepthSum(d) <= MaxDepthSum}

StructuralQuery(kind, filter, depths, pinned, interval, axis) ==
    [kind |-> kind, filter |-> filter, graph_resolve_depths |-> depths,
     pinned_timestamp |-> pinned, variable_interval |-> interval,
     variable_time_axis |-> axis]

\* Variable intervals of a query: from a timestamp on, or one timestamp.
QueryIntervals ==
    {Interval(lo, Inf) : lo \in Timestamps} \cup {Interval(t, t + 1) : t \in Timestamps}

\* Filters on entities: by entity id, or by edition id.
EntityFilters ==
    {{EntityEditionId("E1", 1), EntityEditionId("E1", 2)},
     {EntityEditionId("E1", 1)}}

EntityQueries ==
    {StructuralQuery("entity", f, d, p, i, a) :
        f \in EntityFilters,
        d \in {x \in DepthVectors : x.property_type_resolve_depth = 0
                                      /\ x.data_type_resolve_depth = 0},
        p \in {0, MaxTime}, i \in QueryIntervals, a \in TimeAxis}

\* Queries on ontology types: the temporal axes play no part in them.
EntityTypeQueries ==
    {StructuralQuery("entity_type", f, d, 0, Interval(0, Inf), "DecisionTime") :
        f \in {{"TA"}, {"TA", "TB"}},
        d \in {x \in DepthVectors : x.entity_resolve_depth = 0}}

PropertyTypeQueries ==
    {StructuralQuery("property_type", f, d, 0, Interval(0, Inf), "DecisionTime") :
        f \in {{"P1"}, {"P1", "P2"}},
        d \in {x \in DepthVectors : x.entity_resolve_depth = 0
                                      /\ x.entity_type_resolve_depth = 0}}

(***************************************************************************)
(* Store reads.                                                            *)
(***************************************************************************)
\* The column of a metadata row on the variable axis, and on the pinned one.
variable_axis_column(m, variable_axis) ==
    IF variable_axis = "DecisionTime" THEN m.decision_time ELSE m.transaction_time
pinned_axis_column(m, variable_axis) ==
    IF variable_axis = "DecisionTime" THEN m.transaction_time ELSE m.decision_time

\* Record::vertex_id of an entity: its id and the start of its edition on
\* the variable axis.
vertex_id(m, time_axis) == EntityVertexId(m.entity, lower(variable_axis_column(m, time_axis)))

\* Read::read_vec on entities: the rows the filter accepts under the
\* temporal axes.
read_vec(st, filter, pinned, interval, time_axis) ==
    {m \in st.entity_temporal_metadata :
        /\ m.edition \in filter
        /\ contains(pinned_axis_column(m, time_axis), pinned)
        /\ overlaps(variable_axis_column(m, time_axis), interval)}

\* read_shared_edges without the condition on the pinned axis.
read_shared_edges_Unpinned(st, batch, pinned, variable_axis) ==
    {[source_vertex_id |-> vertex_id(m, variable_axis),
      target_vertex_id |-> t[2],
      index |-> idx - 1] :
        <<m, t, idx>> \in
            {x \in st.entity_temporal_metadata \X st.entity_is_of_type \X DOMAIN batch :
                /\ x[1].edition = x[2][1]
                /\ x[2][2] \in st.ontology_ids
                /\ batch[x[3]].base_id = x[1].entity
                /\ overlaps(batch[x[3]].interval, variable_axis_column(x[1], variable_axis))}}

\* A batch is the parallel arrays of one resolver call, one record per
\* position: the source's base id (owned_by_ids, entity_uuids), its
\* interval (intervals) and the decremented depths (resolve_depths).
\* filter.idx is the 1-based ordinal of a position; the rows carry idx - 1.
read_shared_edges(st, batch, pinned, variable_axis) ==
    {[source_vertex_id |-> vertex_id(m, variable_axis),
      target_vertex_id |-> t[2],
      index |-> idx - 1] :
        <<m, t, idx>> \in
            {x \in st.entity_temporal_metadata \X st.entity_is_of_type \X DOMAIN batch :
                /\ x[1].edition = x[2][1]
                /\ x[2][2] \in st.ontology_ids
                /\ contains(pinned_axis_column(x[1], variable_axis), pinned)
                /\ batch[x[3]].base_id = x[1].entity
                /\ overlaps(batch[x[3]].interval, variable_axis_column(x[1], variable_axis))}}

ReferenceTable(st, edge_kind) ==
    CASE edge_kind = "HasLeftEntity" -> st.entity_has_left_entity
      [] edge_kind = "HasRightEntity" -> st.entity_has_right_entity
      [] edge_kind = "InheritsFrom" -> st.entity_type_inherits_from
      [] edge_kind = "ConstrainsLinksOn" -> st.entity_type_constrains_links_on
      [] edge_kind = "ConstrainsLinkDestinationsOn"
            -> st.entity_type_constrains_link_destinations_on
      [] edge_kind = "ConstrainsPropertiesOn" -> st.entity_type_constrains_properties_on

\* EntityEdgeJoin without the condition that the target overlaps the
\* interval of the batch position.
EntityEdgeJoin_TargetUnfiltered(st, batch, pinned, variable_axis, reference_table, edge_direction) ==
    UNION {UNION {UNION {UNION {
            {<<r, source, target, idx>> :
                target \in {t \in visible :
                    /\ t.entity = (IF edge_direction = "Incoming" THEN r[1] ELSE r[2])
                    /\ overlaps(variable_axis_column(t, variable_axis),
                                variable_axis_column(source, variable_axis))}}
            : source \in {m \in visible :
                    /\ m.entity = batch[idx].base_id
                    /\ overlaps(batch[idx].interval, variable_axis_column(m, variable_axis))}}
            : r \in {x \in reference_table :
                    (IF edge_direction = "Incoming" THEN x[2] ELSE x[1]) = batch[idx].base_id}}
            : idx \in DOMAIN batch}
            : visible \in {{m \in st.entity_temporal_metadata :
                                contains(pinned_axis_column(m, variable_axis), pinned)}}}

\* EntityEdgeJoin without the condition that the source overlaps the
\* interval of the batch position.
EntityEdgeJoin_SourceUnfiltered(st, batch, pinned, variable_axis, reference_table, edge_direction) ==
    UNION {UNION {UNION {UNION {
            {<<r, source, target, idx>> :
                target \in {t \in visible :
                    /\ t.entity = (IF edge_direction = "Incoming" THEN r[1] ELSE r[2])
                    /\ overlaps(variable_axis_column(t, variable_axis),
                                variable_axis_column(source, variable_axis))
                    /\ overlaps(batch[idx].interval, variable_axis_column(t, variable_axis))}}
            : source \in {m \in visible : m.entity = batch[idx].base_id}}
            : r \in {x \in reference_table :
                    (IF edge_direction = "Incoming" THEN x[2] ELSE x[1]) = batch[idx].base_id}}
            : idx \in DOMAIN batch}
            : visible \in {{m \in st.entity_temporal_metadata :
                                contains(pinned_axis_column(m, variable_axis), pinned)}}}

\* The join of one reference table row with a source row, a target row and
\* a position of the batch.  For the incoming direction the two sides of
\* the reference table are swapped.
EntityEdgeJoin(st, batch, pinned, variable_axis, reference_table, edge_direction) ==
    UNION {UNION {UNION {UNION {
            {<<r, source, target, idx>> :
                target \in {t \in visible :
                    /\ t.entity = (IF edge_direction = "Incoming" THEN r[1] ELSE r[2])
                    /\ overlaps(variable_axis_column(t, variable_axis),
                                variable_axis_column(source, variable_axis))
                    /\ overlaps(batch[idx].interval, variable_axis_column(t, variable_axis))}}
            : source \in {m \in visible :
                    /\ m.entity = batch[idx].base_id
                    /\ overlaps(batch[idx].interval, variable_axis_column(m, variable_axis))}}
            : r \in {x \in reference_table :
                    (IF edge_direction = "Incoming" THEN x[2] ELSE x[1]) = batch[idx].base_id}}
            : idx \in DOMAIN batch}
            : visible \in {{m \in st.entity_temporal_metadata :
                                contains(pinned_axis_column(m, variable_axis), pinned)}}}

\* read_entity_edges returning the intersection of the two editions as the
\* interval, not intersected with the interval of the batch position.
read_entity_edges_EdgeInterval(st, batch, pinned, variable_axis, reference_table, edge_direction) ==
    {LET source_interval == variable_axis_column(x[2], variable_axis)
         target_interval == variable_axis_column(x[3], variable_axis)
     IN  [source_vertex_id |-> EntityVertexId(x[2].entity, lower(source_interval)),
          target_vertex_id |-> EntityVertexId(x[3].entity, lower(source_interval)),
          target_id |-> EntityIdWithInterval(x[3].entity,
                                             intersect(source_interval, target_interval)),
          target_edition_id |-> x[3].edition,
          interval |-> intersect(source_interval, target_interval),
          index |-> x[4] - 1] :
        x \in EntityEdgeJoin(st, batch, pinned, variable_axis, reference_table,
                             edge_direction)}

read_entity_edges(st, batch, pinned, variable_axis, reference_table, edge_direction) ==
    {LET source_interval == variable_axis_column(x[2], variable_axis)
         target_interval == variable_axis_column(x[3], variable_axis)
     IN  [source_vertex_id |-> EntityVertexId(x[2].entity, lower(source_interval)),
          target_vertex_id |-> EntityVertexId(x[3].entity, lower(source_interval)),
          target_id |-> EntityIdWithInterval(x[3].entity,
                                             intersect(source_interval, target_interval)),
          target_edition_id |-> x[3].edition,
          interval |-> intersect(intersect(source_interval, target_interval),
                                 batch[x[4]].interval),
          index |-> x[4] - 1] :
        x \in EntityEdgeJoin(st, batch, pinned, variable_axis, reference_table,
                             edge_direction)}

\* read_ontology_edges: the rows of a reference table whose source is at a
\* position of the batch.
read_ontology_edges(batch, reference_table) ==
    {[source |-> r[1], target |-> r[2], index |-> idx - 1] :
        <<r, idx>> \in {x \in reference_table \X DOMAIN batch :
                            batch[x[2]].vertex_id = x[1][1]}}

(***************************************************************************)
(* Transactions of the write path.  A transaction stages the rows it       *)
(* inserts and the rows it supersedes; commit applies them to the store,   *)
(* and dropping the transaction discards them.                             *)
(***************************************************************************)
Writers == {"w1", "w2"}

NewTransaction ==
    [operation |-> "none",     \* the write operation the writer is running
     pc |-> "idle",            \* its position in that operation
     input |-> <<>>,           \* the arguments of the call
     position |-> 0,           \* loop index over the schemas of a batch
     statements |-> 0,         \* statements executed since the transaction began
     observed |-> 0,           \* edition the update statement found to be the latest
     inserted |-> EmptyStore,  \* rows staged for insertion
     deleted |-> EmptyStore,   \* rows staged for removal
     signal |-> "none",        \* what the store answered to the failed statement
     result |-> "Pending"]     \* what the operation returned to its caller

\* Transaction::commit: the staged rows become visible.
commit(st, tx) == [table \in DOMAIN st |-> (st[table] \ tx.deleted[table]) \cup tx.inserted[table]]

\* No store fault has ended the query.
NoFailure == [site |-> "none", kind |-> "none"]

\* No read has been issued yet.
NoReads == [loop |-> "none", layer |-> 0, calls |-> <<>>]

\* The engine components before any call: Metaversion::default(), an empty
\* pool, no MessageMap, no packages.
NoCall == [name |-> "none", self |-> "none", argument |-> <<>>, result |-> "none", count |-> 0]

EngineIdle ==
    /\ metaversion = [memory |-> 0, batch |-> 0]
    /\ new_state = [memory |-> 0, batch |-> 0]
    /\ pool = <<>>
    /\ message_map = <<>>
    /\ sim_packages = <<>>
    /\ overflow_checks = FALSE
    /\ call = NoCall

(***************************************************************************)
(* Subgraph and TraversalContext.                                          *)
(***************************************************************************)
Edge(source, edge_kind, direction, target) ==
    [source |-> source, kind |-> edge_kind, direction |-> direction, target |-> target]

NewSubgraph ==
    [vertices |-> [entities |-> {}, entity_types |-> {}, property_types |-> {},
                   data_types |-> {}],
     edges |-> {},
     roots |-> {}]

\* Subgraph::insert_edge for a set of edges; inserting twice is a no-op.
insert_edges(sg, new_edges) == [sg EXCEPT !.edges = @ \cup new_edges]

NewTraversalContext ==
    [entity_edition_ids |-> {}, entity_type_ids |-> {}, property_type_ids |-> {},
     data_type_ids |-> {}]

\* Phase with the entity types expanded as soon as one is waiting, before
\* the entities that are left.
Phase_TypesFirst(eq, etq, ptq) ==
    IF etq # <<>> THEN "entity_types"
    ELSE IF eq # <<>> THEN "entities"
    ELSE IF ptq # <<>> THEN "property_types"
    ELSE "data_types"

\* Which loop runs next: each per-kind loop runs until its queue is empty
\* and then hands the next kind's queue to the next loop.
Phase(eq, etq, ptq) ==
    IF eq # <<>> THEN "entities"
    ELSE IF etq # <<>> THEN "entity_types"
    ELSE IF ptq # <<>> THEN "property_types"
    ELSE "data_types"

(***************************************************************************)
(* traverse_entities: one pass of the while loop.                          *)
(***************************************************************************)
entity_edges ==
    <<[kind |-> "HasLeftEntity", direction |-> "Incoming"],
      [kind |-> "HasRightEntity", direction |-> "Incoming"],
      [kind |-> "HasLeftEntity", direction |-> "Outgoing"],
      [kind |-> "HasRightEntity", direction |-> "Outgoing"]>>

\* EntityBatch with every edge kind admitted and decremented as IsOfType is:
\* a link then spends the entity type counter instead of the entity counter.
EntityBatch_AsIsOfType(queue, edge_kind, direction) ==
    LET admitted == SelectSeq(queue,
            LAMBDA t : decrement_depth_for_edge(t.depths, "IsOfType", "Outgoing") # None)
    IN  [i \in DOMAIN admitted |->
            [base_id |-> admitted[i].vertex_id.base_id,
             interval |-> admitted[i].interval,
             depths |-> decrement_depth_for_edge(admitted[i].depths, "IsOfType",
                                                 "Outgoing")[1]]]

\* EntityBatch with a saturating decrement: a triple whose counter is zero
\* is admitted with the counter left at zero.
EntityBatch_Saturating(queue, edge_kind, direction) ==
    [i \in DOMAIN queue |->
        [base_id |-> queue[i].vertex_id.base_id,
         interval |-> queue[i].interval,
         depths |-> [queue[i].depths EXCEPT ![DepthCounter(edge_kind)] = Max(0, @ - 1)]]]

\* The triples of the queue that admit a decrement for an edge kind, as the
\* batch of that kind's resolver call.
EntityBatch(queue, edge_kind, direction) ==
    LET admitted == SelectSeq(queue,
            LAMBDA t : decrement_depth_for_edge(t.depths, edge_kind, direction) # None)
    IN  [i \in DOMAIN admitted |->
            [base_id |-> admitted[i].vertex_id.base_id,
             interval |-> admitted[i].interval,
             depths |-> decrement_depth_for_edge(admitted[i].depths, edge_kind,
                                                 direction)[1]]]

\* The rows of one read_entity_edges call; no call is made without a batch.
EntityEdgeRows(st, q, batch, k) ==
    IF batch = <<>> THEN {}
    ELSE read_entity_edges(st, batch, q.pinned_timestamp, q.variable_time_axis,
                           ReferenceTable(st, entity_edges[k].kind),
                           entity_edges[k].direction)

\* What the loop pushes for the rows of one read_ontology_edges call.
OntologyQueueEntries(batch, rows) ==
    [i \in DOMAIN rows |->
        [vertex_id |-> rows[i].target, depths |-> batch[rows[i].index + 1].depths]]

\* The rows of read_shared_edges as (source, target, index).
SharedEdgeRows(rows) ==
    [i \in DOMAIN rows |-> [source |-> rows[i].source_vertex_id,
                            target |-> rows[i].target_vertex_id,
                            index |-> rows[i].index]]

\* What traverse_entities pushes for the rows of one read_entity_edges call.
EntityQueueEntries(batch, rows) ==
    [i \in DOMAIN rows |->
        [vertex_id |-> rows[i].target_vertex_id,
         depths |-> batch[rows[i].index + 1].depths,
         interval |-> rows[i].interval]]

EntityEdgesOf(k, rows) ==
    {Edge(r.source_vertex_id, entity_edges[k].kind, entity_edges[k].direction, r.target_id) :
        r \in rows}

\* The rows of a call, each with the batch position it was resolved from.
RowsWithParent(k, batch, rows) ==
    {[kind |-> entity_edges[k].kind, direction |-> entity_edges[k].direction,
      row |-> r, parent |-> batch[r.index + 1]] : r \in rows}

\* The resolver calls of one pass, as the set holding their one outcome:
\* the batch and the rows of read_shared_edges and of each of the four
\* read_entity_edges calls.
EntityLayer(st, q, queue) ==
    {[ontology_edges_to_traverse |-> ontology_edges_to_traverse,
      shared |-> IF ontology_edges_to_traverse = <<>> THEN {}
                 ELSE read_shared_edges(st, ontology_edges_to_traverse,
                                        q.pinned_timestamp, q.variable_time_axis),
      entity_edges_to_traverse |-> entity_edges_to_traverse,
      rows |-> [k \in DOMAIN entity_edges |->
                    EntityEdgeRows(st, q, entity_edges_to_traverse[k], k)]] :
        ontology_edges_to_traverse \in {EntityBatch(queue, "IsOfType", "Outgoing")},
        entity_edges_to_traverse \in
            {[k \in DOMAIN entity_edges |->
                EntityBatch(queue, entity_edges[k].kind, entity_edges[k].direction)]}}

\* One store read of a resolver: the edge kind and direction it resolves
\* and the number of sources passed to it.
Call(edge_kind, direction, batch) ==
    [edge_kind |-> edge_kind, direction |-> direction, sources |-> Len(batch)]

\* The passes of a loop are counted up to two more than the largest depth
\* counter of a query.
MaxLayer == MaxDepthSum + 2

\* The reads of a pass are recorded in the order they are awaited, with
\* the number of the pass in its while loop.
NextReads(last, loop, calls) ==
    [loop |-> loop,
     layer |-> IF last.loop = loop THEN Min(last.layer + 1, MaxLayer) ELSE 1,
     calls |-> calls]

RECURSIVE Flatten(_)
Flatten(seqs) == IF seqs = <<>> THEN <<>> ELSE Head(seqs) \o Flatten(Tail(seqs))

\* EntityReads with one read for each source of a batch.
EntityReads_PerSource(layer) ==
    [i \in DOMAIN layer.ontology_edges_to_traverse |->
        Call("IsOfType", "Outgoing", <<layer.ontology_edges_to_traverse[i]>>)]
    \o Flatten([k \in DOMAIN entity_edges |->
            [i \in DOMAIN layer.entity_edges_to_traverse[k] |->
                Call(entity_edges[k].kind, entity_edges[k].direction,
                     <<layer.entity_edges_to_traverse[k][i]>>)]])

\* The reads of one pass of traverse_entities: read_shared_edges if a
\* triple admitted IsOfType (`if let Some(..) = ontology_edges_to_traverse`),
\* then read_entity_edges for each entry of entity_edges_to_traverse.
EntityReads(layer) ==
    (IF layer.ontology_edges_to_traverse = <<>> THEN <<>>
     ELSE <<Call("IsOfType", "Outgoing", layer.ontology_edges_to_traverse)>>)
    \o Flatten([k \in DOMAIN entity_edges |->
            IF layer.entity_edges_to_traverse[k] = <<>> THEN <<>>
            ELSE <<Call(entity_edges[k].kind, entity_edges[k].direction,
                        layer.entity_edges_to_traverse[k])>>])

traverse_entities ==
    /\ pc = "entities"
    /\ entity_queue # <<>>
    /\ \E layer \in EntityLayer(store, query, entity_queue), reversed \in BOOLEAN :
        \E shared_rows \in {SharedEdgeRows(RowOrder(layer.shared, reversed))},
           rows \in {[k \in DOMAIN entity_edges |-> RowOrder(layer.rows[k], reversed)]} :
            /\ entity_type_queue' = entity_type_queue \o
                    OntologyQueueEntries(layer.ontology_edges_to_traverse, shared_rows)
            /\ entity_queue' =
                    EntityQueueEntries(layer.entity_edges_to_traverse[1], rows[1])
                    \o EntityQueueEntries(layer.entity_edges_to_traverse[2], rows[2])
                    \o EntityQueueEntries(layer.entity_edges_to_traverse[3], rows[3])
                    \o EntityQueueEntries(layer.entity_edges_to_traverse[4], rows[4])
            /\ traversal_context' =
                    [traversal_context EXCEPT
                        !.entity_type_ids = @ \cup {r.target_vertex_id : r \in layer.shared},
                        !.entity_edition_ids = @ \cup
                            {r.target_edition_id :
                                r \in UNION {layer.rows[k] : k \in DOMAIN entity_edges}}]
            /\ subgraph' = insert_edges(subgraph,
                    {Edge(r.source_vertex_id, "IsOfType", "Outgoing", r.target_vertex_id) :
                        r \in layer.shared}
                    \cup UNION {EntityEdgesOf(k, layer.rows[k]) : k \in DOMAIN entity_edges})
            /\ last_rows' =
                    UNION {RowsWithParent(k, layer.entity_edges_to_traverse[k], layer.rows[k]) :
                            k \in DOMAIN entity_edges}
            /\ reads' = NextReads(reads, "entities", EntityReads(layer))
            /\ pc' = Phase(entity_queue', entity_type_queue', <<>>)
    /\ UNCHANGED <<store, query, property_type_queue, data_type_queue, run, first_result,
                   failure, transactions, engine_vars>>

(***************************************************************************)
(* traverse_entity_types: one pass of the while loop.                      *)
(***************************************************************************)
entity_type_edges == <<"InheritsFrom", "ConstrainsLinksOn", "ConstrainsLinkDestinationsOn">>

\* OntologyBatch without the admission test: a pair whose counter is
\* exhausted is resolved all the same, with its depths unchanged.
OntologyBatch_Unchecked(queue, edge_kind) ==
    [i \in DOMAIN queue |->
        [vertex_id |-> queue[i].vertex_id,
         depths |-> IF decrement_depth_for_edge(queue[i].depths, edge_kind, "Outgoing") = None
                    THEN queue[i].depths
                    ELSE decrement_depth_for_edge(queue[i].depths, edge_kind, "Outgoing")[1]]]

\* OntologyBatch with the entity type counter consumed for every edge kind.
OntologyBatch_EntityTypeCounter(queue, edge_kind) ==
    LET admitted == SelectSeq(queue,
            LAMBDA t : decrement_depth_for_edge(t.depths, "InheritsFrom", "Outgoing") # None)
    IN  [i \in DOMAIN admitted |->
            [vertex_id |-> admitted[i].vertex_id,
             depths |-> decrement_depth_for_edge(admitted[i].depths, "InheritsFrom",
                                                 "Outgoing")[1]]]

\* The triples of the queue that admit a decrement for an edge kind, as the
\* batch of read_ontology_edges for that kind.
OntologyBatch(queue, edge_kind) ==
    LET admitted == SelectSeq(queue,
            LAMBDA t : decrement_depth_for_edge(t.depths, edge_kind, "Outgoing") # None)
    IN  [i \in DOMAIN admitted |->
            [vertex_id |-> admitted[i].vertex_id,
             depths |-> decrement_depth_for_edge(admitted[i].depths, edge_kind,
                                                 "Outgoing")[1]]]

\* The rows of one read_ontology_edges call; no call is made without a batch.
OntologyEdgeRows(st, batch, edge_kind) ==
    IF batch = <<>> THEN {} ELSE read_ontology_edges(batch, ReferenceTable(st, edge_kind))

OntologyEdgesOf(edge_kind, rows) ==
    {Edge(r.source, edge_kind, "Outgoing", r.target) : r \in rows}

\* The read_ontology_edges calls of one pass, as the set holding their one
\* outcome: position 1 is ConstrainsPropertiesOn, then entity_type_edges.
EntityTypeLayer(st, queue) ==
    {[batches |-> batches,
      rows |-> [k \in DOMAIN batches |->
                    OntologyEdgeRows(st, batches[k],
                                     (<<"ConstrainsPropertiesOn">> \o entity_type_edges)[k])]] :
        batches \in
            {[k \in 1 .. 1 + Len(entity_type_edges) |->
                OntologyBatch(queue, (<<"ConstrainsPropertiesOn">> \o entity_type_edges)[k])]}}

\* The reads of one pass of traverse_entity_types: read_ontology_edges for
\* each edge kind that has an entry in edges_to_traverse.
EntityTypeReads(layer) ==
    Flatten([k \in DOMAIN layer.batches |->
        IF layer.batches[k] = <<>> THEN <<>>
        ELSE <<Call((<<"ConstrainsPropertiesOn">> \o entity_type_edges)[k], "Outgoing",
                    layer.batches[k])>>])

traverse_entity_types ==
    /\ pc = "entity_types"
    /\ entity_type_queue # <<>>
    /\ \E layer \in EntityTypeLayer(store, entity_type_queue), reversed \in BOOLEAN :
        \E rows \in {[k \in DOMAIN layer.rows |-> RowOrder(layer.rows[k], reversed)]} :
            /\ property_type_queue' = property_type_queue
                                      \o OntologyQueueEntries(layer.batches[1], rows[1])
            /\ entity_type_queue' = OntologyQueueEntries(layer.batches[2], rows[2])
                                    \o OntologyQueueEntries(layer.batches[3], rows[3])
                                    \o OntologyQueueEntries(layer.batches[4], rows[4])
            /\ traversal_context' =
                    [traversal_context EXCEPT
                        !.property_type_ids = @ \cup {r.target : r \in layer.rows[1]},
                        !.entity_type_ids = @ \cup
                            {r.target : r \in layer.rows[2] \cup layer.rows[3]
                                                \cup layer.rows[4]}]
            /\ subgraph' = insert_edges(subgraph,
                    OntologyEdgesOf("ConstrainsPropertiesOn", layer.rows[1])
                    \cup OntologyEdgesOf(entity_type_edges[1], layer.rows[2])
                    \cup OntologyEdgesOf(entity_type_edges[2], layer.rows[3])
                    \cup OntologyEdgesOf(entity_type_edges[3], layer.rows[4]))
            /\ reads' = NextReads(reads, "entity_types", EntityTypeReads(layer))
            /\ pc' = Phase(<<>>, entity_type_queue', property_type_queue')
    /\ UNCHANGED <<store, query, entity_queue, data_type_queue, last_rows, run, first_result,
                   failure, transactions, engine_vars>>

(***************************************************************************)
(* traverse_property_types: one pass of the while loop.  Both selects      *)
(* filter on constrains_values_on_queue, and their rows are paired with    *)
(* the depths by position (zip), in the order the store returns them.      *)
(***************************************************************************)
\* The ids of the triples that admit a decrement for an edge kind
\* (constrains_values_on_queue, constrains_properties_on_queue).
PropertyTypeIds(queue, edge_kind) ==
    LET batch == OntologyBatch(queue, edge_kind)
    IN  [i \in DOMAIN batch |-> batch[i].vertex_id]

\* PropertyTypeDepths with the depths of the triple pushed in place of the
\* decremented ones.
PropertyTypeDepths_NoDecrement(queue, edge_kind) ==
    LET admitted == SelectSeq(queue,
            LAMBDA t : decrement_depth_for_edge(t.depths, edge_kind, "Outgoing") # None)
    IN  [i \in DOMAIN admitted |-> admitted[i].depths]

\* Their decremented depths (constrains_values_on_depths,
\* constrains_properties_on_depths).
PropertyTypeDepths(queue, edge_kind) ==
    LET batch == OntologyBatch(queue, edge_kind)
    IN  [i \in DOMAIN batch |-> batch[i].depths]

\* The rows of a select on a reference table whose source is IN the ids.
SelectIn(reference_table, ids) ==
    {[source |-> r[1], target |-> r[2]] : r \in {x \in reference_table : x[1] \in Range(ids)}}

\* rows.zip(depths)
zip(rows, depths) ==
    [i \in 1 .. Min(Len(rows), Len(depths)) |-> [row |-> rows[i], depths |-> depths[i]]]

ValuesFilter(queue) == PropertyTypeIds(queue, "ConstrainsValuesOn")
PropertiesFilter(queue) == PropertyTypeIds(queue, "ConstrainsValuesOn")

\* The reads of one pass of traverse_property_types: the two selects are
\* compiled and awaited in every pass, with the ids of their IN list.
PropertyTypeReads(queue) ==
    <<Call("ConstrainsValuesOn", "Outgoing", ValuesFilter(queue)),
      Call("ConstrainsPropertiesOn", "Outgoing", PropertiesFilter(queue))>>

traverse_property_types ==
    /\ pc = "property_types"
    /\ property_type_queue # <<>>
    /\ LET constrains_values_on_depths ==
                PropertyTypeDepths(property_type_queue, "ConstrainsValuesOn")
           constrains_properties_on_depths ==
                PropertyTypeDepths(property_type_queue, "ConstrainsPropertiesOn")
           data_type_rows == SelectIn(store.property_type_constrains_values_on,
                                      ValuesFilter(property_type_queue))
           property_type_rows == SelectIn(store.property_type_constrains_properties_on,
                                          PropertiesFilter(property_type_queue))
       IN  \E o \in Orderings(data_type_rows) \X Orderings(property_type_rows) :
            LET values == zip(o[1], constrains_values_on_depths)
                properties == zip(o[2], constrains_properties_on_depths)
            IN  /\ data_type_queue' = data_type_queue \o
                        [i \in DOMAIN values |->
                            [vertex_id |-> values[i].row.target, depths |-> values[i].depths]]
                /\ property_type_queue' =
                        [i \in DOMAIN properties |->
                            [vertex_id |-> properties[i].row.target,
                             depths |-> properties[i].depths]]
                /\ traversal_context' =
                        [traversal_context EXCEPT
                            !.data_type_ids = @ \cup {x.row.target : x \in Range(values)},
                            !.property_type_ids = @ \cup
                                {x.row.target : x \in Range(properties)}]
                /\ subgraph' = insert_edges(subgraph,
                        {Edge(x.row.source, "ConstrainsValuesOn", "Outgoing", x.row.target) :
                            x \in Range(values)}
                        \cup {Edge(x.row.source, "ConstrainsPropertiesOn", "Outgoing",
                                   x.row.target) : x \in Range(properties)})
                /\ reads' = NextReads(reads, "property_types",
                                       PropertyTypeReads(property_type_queue))
                /\ pc' = Phase(<<>>, <<>>, property_type_queue')
    /\ UNCHANGED <<store, query, entity_queue, entity_type_queue, last_rows, run,
                   first_result, failure, transactions, engine_vars>>

\* traverse_data_types: data types have no outgoing edges to resolve.
traverse_data_types ==
    /\ pc = "data_types"
    /\ data_type_queue' = <<>>
    /\ pc' = "load"
    /\ UNCHANGED <<store, query, entity_queue, entity_type_queue, property_type_queue,
                   traversal_context, subgraph, last_rows, run, first_result,
                   failure, transactions, reads, engine_vars>>

(***************************************************************************)
(* The vertex loader and the query entry points.                           *)
(***************************************************************************)
\* read_entities_by_ids with every edition of the store returned, whatever
\* the ids asked for.
read_entities_by_ids_All(st, vertex_ids, q) ==
    read_vec(st, {m.edition : m \in st.entity_temporal_metadata}, q.pinned_timestamp,
             q.variable_interval, q.variable_time_axis)

\* read_entities_by_ids: the editions with one of the ids, under the
\* query's temporal axes.
read_entities_by_ids(st, vertex_ids, q) ==
    read_vec(st, vertex_ids, q.pinned_timestamp, q.variable_interval, q.variable_time_axis)

\* TraversalContext::load_vertices: one read per kind for the ids the
\* traversal recorded, each payload inserted under its vertex id.
load_vertices ==
    /\ pc = "load"
    /\ subgraph' =
            [subgraph EXCEPT
                !.vertices.entities = @ \cup
                    {vertex_id(m, query.variable_time_axis) :
                        m \in read_entities_by_ids(store,
                                traversal_context.entity_edition_ids, query)},
                !.vertices.entity_types = @ \cup traversal_context.entity_type_ids,
                !.vertices.property_types = @ \cup traversal_context.property_type_ids,
                !.vertices.data_types = @ \cup traversal_context.data_type_ids]
    /\ pc' = "done"
    /\ UNCHANGED <<store, query, entity_queue, entity_type_queue, property_type_queue,
                   data_type_queue, traversal_context, last_rows, run, first_result,
                   failure, transactions, reads, engine_vars>>

\* get_entity with the roots taken from the vertex map before the entities
\* read are stored in it.
get_entity_RootsFirst ==
    /\ pc = "idle"
    /\ query.kind = "entity"
    /\ LET entities == {vertex_id(m, query.variable_time_axis) :
                            m \in read_vec(store, query.filter, query.pinned_timestamp,
                                           query.variable_interval, query.variable_time_axis)}
       IN  /\ subgraph' = [NewSubgraph EXCEPT !.vertices.entities = entities,
                                               !.roots = NewSubgraph.vertices.entities]
           /\ \E reversed \in BOOLEAN :
                LET keys == RowOrder(entities, reversed)
                IN  entity_queue' = [i \in DOMAIN keys |->
                                        [vertex_id |-> keys[i],
                                         depths |-> query.graph_resolve_depths,
                                         interval |-> query.variable_interval]]
    /\ traversal_context' = NewTraversalContext
    /\ pc' = Phase(entity_queue', <<>>, <<>>)
    /\ UNCHANGED <<store, query, entity_type_queue, property_type_queue, data_type_queue,
                   last_rows, run, first_result,
                   failure, transactions, reads, engine_vars>>

\* get_entity with the roots scheduled with GraphResolveDepths::default()
\* in place of the depths of the query.
get_entity_SeedsZeroed ==
    /\ pc = "idle"
    /\ query.kind = "entity"
    /\ LET entities == {vertex_id(m, query.variable_time_axis) :
                            m \in read_vec(store, query.filter, query.pinned_timestamp,
                                           query.variable_interval, query.variable_time_axis)}
       IN  /\ subgraph' = [NewSubgraph EXCEPT !.vertices.entities = entities,
                                               !.roots = entities]
           /\ \E reversed \in BOOLEAN :
                LET keys == RowOrder(entities, reversed)
                IN  entity_queue' = [i \in DOMAIN keys |->
                                        [vertex_id |-> keys[i],
                                         depths |-> zeroed,
                                         interval |-> query.variable_interval]]
    /\ traversal_context' = NewTraversalContext
    /\ pc' = Phase(entity_queue', <<>>, <<>>)
    /\ UNCHANGED <<store, query, entity_type_queue, property_type_queue, data_type_queue,
                   last_rows, run, first_result,
                   failure, transactions, reads, engine_vars>>


\* get_entity reading the roots without the variable interval of the
\* query: every edition visible at the pinned timestamp is a root.
get_entity_AllEditions ==
    /\ pc = "idle"
    /\ query.kind = "entity"
    /\ LET entities == {vertex_id(m, query.variable_time_axis) :
                            m \in read_vec(store, query.filter, query.pinned_timestamp,
                                           Interval(0, Inf), query.variable_time_axis)}
       IN  /\ subgraph' = [NewSubgraph EXCEPT !.vertices.entities = entities,
                                               !.roots = entities]
           /\ \E reversed \in BOOLEAN :
                LET keys == RowOrder(entities, reversed)
                IN  entity_queue' = [i \in DOMAIN keys |->
                                        [vertex_id |-> keys[i],
                                         depths |-> query.graph_resolve_depths,
                                         interval |-> query.variable_interval]]
    /\ traversal_context' = NewTraversalContext
    /\ pc' = Phase(entity_queue', <<>>, <<>>)
    /\ UNCHANGED <<store, query, entity_type_queue, property_type_queue, data_type_queue,
                   last_rows, run, first_result,
                   failure, transactions, reads, engine_vars>>

get_entity ==
    /\ pc = "idle"
    /\ query.kind = "entity"
    /\ LET entities == {vertex_id(m, query.variable_time_axis) :
                            m \in read_vec(store, query.filter, query.pinned_timestamp,
                                           query.variable_interval, query.variable_time_axis)}
       IN  /\ subgraph' = [NewSubgraph EXCEPT !.vertices.entities = entities,
                                               !.roots = entities]
           /\ \E reversed \in BOOLEAN :
                LET keys == RowOrder(entities, reversed)
                IN  entity_queue' = [i \in DOMAIN keys |->
                                        [vertex_id |-> keys[i],
                                         depths |-> query.graph_resolve_depths,
                                         interval |-> query.variable_interval]]
    /\ traversal_context' = NewTraversalContext
    /\ pc' = Phase(entity_queue', <<>>, <<>>)
    /\ UNCHANGED <<store, query, entity_type_queue, property_type_queue, data_type_queue,
                   last_rows, run, first_result,
                   failure, transactions, reads, engine_vars>>

get_entity_type ==
    /\ pc = "idle"
    /\ query.kind = "entity_type"
    /\ subgraph' = [NewSubgraph EXCEPT !.vertices.entity_types = query.filter,
                                        !.roots = query.filter]
    /\ \E reversed \in BOOLEAN :
            LET keys == RowOrder(query.filter, reversed)
            IN  entity_type_queue' = [i \in DOMAIN keys |->
                                        [vertex_id |-> keys[i],
                                         depths |-> query.graph_resolve_depths]]
    /\ traversal_context' = NewTraversalContext
    /\ pc' = Phase(<<>>, entity_type_queue', <<>>)
    /\ UNCHANGED <<store, query, entity_queue, property_type_queue, data_type_queue,
                   last_rows, run, first_result,
                   failure, transactions, reads, engine_vars>>

get_property_type ==
    /\ pc = "idle"
    /\ query.kind = "property_type"
    /\ subgraph' = [NewSubgraph EXCEPT !.vertices.property_types = query.filter,
                                        !.roots = query.filter]
    /\ \E reversed \in BOOLEAN :
            LET keys == RowOrder(query.filter, reversed)
            IN  property_type_queue' = [i \in DOMAIN keys |->
                                            [vertex_id |-> keys[i],
                                             depths |-> query.graph_resolve_depths]]
    /\ traversal_context' = NewTraversalContext
    /\ pc' = Phase(<<>>, <<>>, property_type_queue')
    /\ UNCHANGED <<store, query, entity_queue, entity_type_queue, data_type_queue,
                   last_rows, run, first_result,
                   failure, transactions, reads, engine_vars>>

\* The caller keeps the returned subgraph and issues the same query again.
Requery ==
    /\ pc = "done"
    /\ run = 1
    /\ run' = 2
    /\ first_result' = subgraph
    /\ pc' = "idle"
    /\ entity_queue' = <<>>
    /\ entity_type_queue' = <<>>
    /\ property_type_queue' = <<>>
    /\ data_type_queue' = <<>>
    /\ traversal_context' = NewTraversalContext
    /\ subgraph' = NewSubgraph
    /\ last_rows' = {}
    /\ reads' = NoReads
    /\ UNCHANGED <<store, query, failure, transactions, engine_vars>>

Init ==
    /\ \/ store \in KnowledgeStores /\ query \in EntityQueries
       \/ store \in EntityTypeStores /\ query \in EntityTypeQueries
       \/ store \in PropertyTypeStores /\ query \in PropertyTypeQueries
    /\ pc = "idle"
    /\ entity_queue = <<>>
    /\ entity_type_queue = <<>>
    /\ property_type_queue = <<>>
    /\ data_type_queue = <<>>
    /\ traversal_context = NewTraversalContext
    /\ subgraph = NewSubgraph
    /\ last_rows = {}
    /\ run = 1
    /\ first_result = NewSubgraph
    /\ failure = NoFailure
    /\ transactions = [w \in Writers |-> NewTransaction]
    /\ reads = NoReads
    /\ EngineIdle

Next ==
    \/ get_entity
    \/ get_entity_type
    \/ get_property_type
    \/ traverse_entities
    \/ traverse_entity_types
    \/ traverse_property_types
    \/ traverse_data_types
    \/ load_vertices

Spec == Init /\ [][Next]_vars

\* The same, with the query issued a second time against the unchanged store.
NextRequery == Next \/ Requery
SpecRequery == Init /\ [][NextRequery]_vars

(***************************************************************************)
(* Store faults.  A read of the backing store can fail with a transport    *)
(* error, or hand back a row that does not parse (an invalid base URL, a   *)
(* revision or an ordinal index out of range), and the task running the    *)
(* query can be dropped while it awaits the store.  The query then ends in *)
(* pc = "QueryError" (the entry point returned Err(QueryError)), in        *)
(* pc = "Panic" (the task was unwound by a panic) or in pc = "Cancelled";  *)
(* pc = "done" stands for the entry point returning Ok(subgraph).          *)
(***************************************************************************)
FaultKinds == {"transport", "malformed"}

\* FaultOutcome with the subgraph built so far handed to the caller.
FaultOutcome_ReturnsSubgraph(site, kind) == "done"

\* FaultOutcome with a failed root read taken as a read of no rows: the
\* entry point goes on with an empty frontier.
FaultOutcome_RootsDefault(site, kind) ==
    CASE site = "read_vec" -> "data_types"
      [] site \in {"read_shared_edges", "read_entity_edges"}
            -> IF kind = "transport" THEN "QueryError" ELSE "Panic"
      [] site = "traverse_property_types" -> "Panic"
      [] OTHER -> "QueryError"

\* How a faulty store read ends the query, per call site.  The two entity
\* resolvers turn a transport error into QueryError with `?' and unwrap the
\* parsed columns with expect; traverse_property_types unwraps the result
\* of the select itself; read_vec, read_ontology_edges and load_vertices
\* are awaited with `?'.
FaultOutcome(site, kind) ==
    CASE site \in {"read_shared_edges", "read_entity_edges"}
            -> IF kind = "transport" THEN "QueryError" ELSE "Panic"
      [] site = "traverse_property_types" -> "Panic"
      [] OTHER -> "QueryError"

\* The query ends at a call site with a fault of some kind.
Fail(site, kind) ==
    /\ failure' = [site |-> site, kind |-> kind]
    /\ pc' = FaultOutcome(site, kind)
    /\ UNCHANGED <<store, query, entity_queue, entity_type_queue, property_type_queue,
                   data_type_queue, traversal_context, subgraph, last_rows, run,
                   first_result, transactions, reads, engine_vars>>

\* Root selection fails: Read::read_vec(..).await? in the entry point.
read_vec_fails ==
    /\ pc = "idle"
    /\ Fail("read_vec", "transport")

\* A resolver call of a pass of traverse_entities fails; a call is only
\* made for a batch that is not empty.
traverse_entities_fails ==
    /\ pc = "entities"
    /\ entity_queue # <<>>
    /\ \E kind \in FaultKinds :
        \/ /\ EntityBatch(entity_queue, "IsOfType", "Outgoing") # <<>>
           /\ Fail("read_shared_edges", kind)
        \/ /\ \E k \in DOMAIN entity_edges :
                EntityBatch(entity_queue, entity_edges[k].kind, entity_edges[k].direction)
                    # <<>>
           /\ Fail("read_entity_edges", kind)

\* A read_ontology_edges call of a pass of traverse_entity_types fails.
traverse_entity_types_fails ==
    /\ pc = "entity_types"
    /\ entity_type_queue # <<>>
    /\ \E edge_kind \in {"ConstrainsPropertiesOn"} \cup Range(entity_type_edges) :
            OntologyBatch(entity_type_queue, edge_kind) # <<>>
    /\ \E kind \in FaultKinds : Fail("read_ontology_edges", kind)

\* One of the two selects of a pass of traverse_property_types fails; both
\* are issued in every pass.
traverse_property_types_fails ==
    /\ pc = "property_types"
    /\ property_type_queue # <<>>
    /\ \E kind \in FaultKinds : Fail("traverse_property_types", kind)

\* A read of the vertex loader fails: load_vertices(..).await? in the
\* entry point.
load_vertices_fails ==
    /\ pc = "load"
    /\ \E kind \in FaultKinds : Fail("load_vertices", kind)

\* The task is dropped while the query awaits the store.
cancel ==
    /\ pc \in {"idle", "entities", "entity_types", "property_types", "load"}
    /\ failure' = [site |-> pc, kind |-> "cancelled"]
    /\ pc' = "Cancelled"
    /\ UNCHANGED <<store, query, entity_queue, entity_type_queue, property_type_queue,
                   data_type_queue, traversal_context, subgraph, last_rows, run,
                   first_result, transactions, reads, engine_vars>>

NextFaults ==
    \/ Next
    \/ read_vec_fails
    \/ traverse_entities_fails
    \/ traverse_entity_types_fails
    \/ traverse_property_types_fails
    \/ load_vertices_fails
    \/ cancel

SpecFaults == Init /\ [][NextFaults]_vars

(***************************************************************************)
(* The write path.  Every operation opens a transaction, issues its        *)
(* statements on it and commits; a statement that fails makes the          *)
(* operation return early through `?', which drops the transaction.  A     *)
(* writer runs one operation; any statement can fail at the store.         *)
(***************************************************************************)
\* The entity ids update_entity is called with: an entity of the store, and
\* an id no store holds.
UpdateTargets == {"E1", "E4"}

\* The rows of the latest edition of an entity: open on both axes.
LatestRows(st, entity) ==
    {m \in st.entity_temporal_metadata :
        m.entity = entity /\ m.decision_time.hi = Inf /\ m.transaction_time.hi = Inf}

LatestEdition(st, entity) ==
    IF LatestRows(st, entity) = {} THEN 0
    ELSE (CHOOSE m \in LatestRows(st, entity) : TRUE).edition[2]

\* The times at which the store can open a new edition of an entity: after
\* the start of its latest edition on both axes.
UpdateTimes(st, entity) ==
    {t \in 1 .. MaxTime :
        \A m \in LatestRows(st, entity) :
            t > m.decision_time.lo /\ t > m.transaction_time.lo}

\* The store function update_entity at time t: the latest edition is closed
\* at t and a new edition, of the given entity type, is opened at t.
UpdateEntityRows(st, entity, t, entity_type_id) ==
    LET latest == CHOOSE m \in LatestRows(st, entity) : TRUE
        n == latest.edition[2]
    IN  [deleted |-> [EmptyStore EXCEPT !.entity_temporal_metadata = {latest}],
         inserted |-> [EmptyStore EXCEPT
            !.entity_temporal_metadata =
                {MetadataRow(entity, n, latest.decision_time,
                             Interval(latest.transaction_time.lo, t)),
                 MetadataRow(entity, n, Interval(latest.decision_time.lo, t),
                             Interval(t, Inf)),
                 MetadataRow(entity, n + 1, Interval(t, Inf), Interval(t, Inf))},
            !.entity_is_of_type = {<<EntityEditionId(entity, n + 1), entity_type_id>>}]]

\* Another transaction holds an uncommitted update of the entity.
Locked(txs, w, entity) ==
    \E v \in Writers \ {w} :
        /\ txs[v].operation = "update_entity"
        /\ txs[v].pc = "ready"
        /\ txs[v].input.entity_id = entity

\* The row of SELECT EXISTS (..) as query_opt returns it: the select has
\* one row whether or not the entity id is there.
exists_row(st, entity_id) ==
    Some(\E m \in st.entity_temporal_metadata : m.entity = entity_id)

\* map_err with no report turned into RaceConditionOnUpdate.
map_err_NeverRace(signal) == "UpdateError"

\* map_err with every report turned into RaceConditionOnUpdate.
map_err_AlwaysRace(signal) == "RaceConditionOnUpdate"

\* The error update_entity makes of a failed update statement.
map_err(signal) ==
    IF signal = "RESTRICT_VIOLATION" THEN "RaceConditionOnUpdate" ELSE "UpdateError"

\* finish with the staged rows applied whatever the operation returns.
finish_CommitsAlways(st, tx, result) == commit(st, tx)

\* The store an operation leaves: commit is reached only when no statement
\* returned early; a dropped transaction leaves the store as it was.
finish(st, tx, result) == IF result = "Ok" THEN commit(st, tx) ELSE st

\* The operation of a writer returns.
Return(w, result, signal) ==
    /\ transactions' =
            [transactions EXCEPT ![w] =
                [@ EXCEPT !.pc = "returned", !.result = result, !.signal = signal,
                          !.inserted = EmptyStore, !.deleted = EmptyStore]]
    /\ store' = finish(store, transactions[w], result)

\* A statement succeeded: the writer moves on with the rows it staged.
Proceed(w, tx) ==
    /\ transactions' = [transactions EXCEPT ![w] = [tx EXCEPT !.statements = @ + 1]]
    /\ store' = store

QueryUnchanged ==
    UNCHANGED <<query, pc, entity_queue, entity_type_queue, property_type_queue,
                data_type_queue, traversal_context, subgraph, last_rows, run, first_result,
                failure, reads, engine_vars>>

\* transaction.commit(), the last await of every operation.
Commit(w, error) ==
    /\ transactions[w].pc = "ready"
    /\ \E ok \in BOOLEAN :
        IF ok THEN Return(w, "Ok", "none") ELSE Return(w, error, "transport")

update_entity ==
    /\ QueryUnchanged
    /\ \E w \in Writers :
        LET tx == transactions[w]
        IN  \/ \* ontology_id_by_url and self.transaction()
               /\ tx.pc = "idle"
               /\ \E entity_id \in UpdateTargets, ok \in BOOLEAN :
                    /\ store' = store
                    /\ transactions' = [transactions EXCEPT ![w] =
                            [tx EXCEPT !.operation = "update_entity",
                                       !.input = [entity_id |-> entity_id,
                                                  entity_type_id |-> "TB"],
                                       !.pc = IF ok THEN "begun" ELSE "returned",
                                       !.result = IF ok THEN "Pending" ELSE "UpdateError",
                                       !.signal = IF ok THEN "none" ELSE "transport"]]
            \/ \* the existence check
               /\ tx.operation = "update_entity"
               /\ tx.pc = "begun"
               /\ \E ok \in BOOLEAN :
                    IF ~ok THEN Return(w, "UpdateError", "transport")
                    ELSE IF exists_row(store, tx.input.entity_id) = None
                         THEN Return(w, "EntityDoesNotExist", "none")
                         ELSE Proceed(w, [tx EXCEPT !.pc = "checked"])
            \/ \* the update statement fails in transport
               /\ tx.operation = "update_entity"
               /\ tx.pc \in {"checked", "waiting"}
               /\ Return(w, map_err("transport"), "transport")
            \/ \* the update statement finds no entity: no row is returned
               /\ tx.operation = "update_entity"
               /\ tx.pc = "checked"
               /\ LatestRows(store, tx.input.entity_id) = {}
               /\ Return(w, map_err("no row"), "no row")
            \/ \* the update statement waits for the transaction holding the entity
               /\ tx.operation = "update_entity"
               /\ tx.pc = "checked"
               /\ LatestRows(store, tx.input.entity_id) # {}
               /\ Locked(transactions, w, tx.input.entity_id)
               /\ store' = store
               /\ transactions' = [transactions EXCEPT ![w] =
                        [tx EXCEPT !.pc = "waiting",
                                   !.observed = LatestEdition(store, tx.input.entity_id)]]
            \/ \* the update statement runs
               /\ tx.operation = "update_entity"
               /\ tx.pc \in {"checked", "waiting"}
               /\ LatestRows(store, tx.input.entity_id) # {}
               /\ ~Locked(transactions, w, tx.input.entity_id)
               /\ IF tx.pc = "waiting"
                        /\ LatestEdition(store, tx.input.entity_id) # tx.observed
                  THEN Return(w, map_err("RESTRICT_VIOLATION"), "RESTRICT_VIOLATION")
                  ELSE \E t \in UpdateTimes(store, tx.input.entity_id) :
                        \E rows \in {UpdateEntityRows(store, tx.input.entity_id, t,
                                                      tx.input.entity_type_id)} :
                            Proceed(w, [tx EXCEPT
                                !.pc = "ready",
                                !.observed = LatestEdition(store, tx.input.entity_id),
                                !.inserted = rows.inserted,
                                !.deleted = rows.deleted])
            \/ /\ tx.operation = "update_entity"
               /\ Commit(w, "UpdateError")

\* An ontology type as the write path sees it: its id, and the rows
\* insert_entity_type_references / insert_property_type_references insert
\* for the types its schema refers to.
Schema(id, references) == [id |-> id, references |-> references]

EntityTypeSchemas ==
    [TA |-> Schema("TA", EmptyStore),
     TC |-> Schema("TC", [EmptyStore EXCEPT
                !.entity_type_inherits_from = {<<"TC", "TA">>},
                !.entity_type_constrains_properties_on = {<<"TC", "P1">>}])]

PropertyTypeSchemas ==
    [P1 |-> Schema("P1", EmptyStore),
     P2 |-> Schema("P2", [EmptyStore EXCEPT
                !.property_type_constrains_values_on = {<<"P2", "D1">>},
                !.property_type_constrains_properties_on = {<<"P2", "P1">>}])]

ConflictBehavior == {"Fail", "Skip"}

\* transaction.create: "Inserted" when the type is new, "Skipped" when it
\* is there already and conflicts are skipped, an error when they are not.
create(existing, schema, on_conflict) ==
    IF schema.id \notin existing THEN "Inserted"
    ELSE IF on_conflict = "Skip" THEN "Skipped"
    ELSE "VersionedUrlAlreadyExists"

\* The rows a transaction has staged, added to.
Stage(tx, rows) ==
    [tx EXCEPT !.inserted = [table \in DOMAIN @ |-> @[table] \cup rows[table]]]

\* inserted_types with every schema of the batch kept, whether create
\* returned an id for it or not.
inserted_types_All(tx) == tx.input.schemas

\* inserted_entity_types / inserted_property_types: the schemas of the
\* batch for which create returned an id.
inserted_types(tx) ==
    SelectSeq(tx.input.schemas, LAMBDA schema : schema.id \in tx.inserted.ontology_ids)

\* The position after a pass of one of the two loops of a creation: the
\* next schema, then the references of the inserted ones, then commit.
AfterCreate(tx) ==
    IF tx.position < Len(tx.input.schemas) THEN [tx EXCEPT !.position = @ + 1]
    ELSE IF inserted_types(tx) # <<>> THEN [tx EXCEPT !.pc = "referencing", !.position = 1]
    ELSE [tx EXCEPT !.pc = "ready"]

AfterReferences(tx) ==
    IF tx.position < Len(inserted_types(tx)) THEN [tx EXCEPT !.position = @ + 1]
    ELSE [tx EXCEPT !.pc = "ready"]

\* create_entity_types and create_property_types, which differ in the
\* schemas they are given.
CreateTypes(operation, batches) ==
    /\ QueryUnchanged
    /\ \E w \in Writers :
        LET tx == transactions[w]
        IN  \/ \* self.transaction()
               /\ tx.pc = "idle"
               /\ \E schemas \in batches, on_conflict \in ConflictBehavior, ok \in BOOLEAN :
                    /\ store' = store
                    /\ transactions' = [transactions EXCEPT ![w] =
                            [tx EXCEPT !.operation = operation,
                                       !.input = [schemas |-> schemas,
                                                  on_conflict |-> on_conflict],
                                       !.position = 1,
                                       !.pc = IF ok THEN "creating" ELSE "returned",
                                       !.result = IF ok THEN "Pending" ELSE "InsertionError",
                                       !.signal = IF ok THEN "none" ELSE "transport"]]
            \/ \* transaction.create(schema, metadata, on_conflict).await?
               /\ tx.operation = operation
               /\ tx.pc = "creating"
               /\ \E ok \in BOOLEAN :
                    \E created \in {create(store.ontology_ids \cup tx.inserted.ontology_ids,
                                           tx.input.schemas[tx.position],
                                           tx.input.on_conflict)} :
                        IF ~ok THEN Return(w, "InsertionError", "transport")
                        ELSE IF created = "VersionedUrlAlreadyExists"
                             THEN Return(w, "InsertionError", created)
                        ELSE IF created = "Skipped" THEN Proceed(w, AfterCreate(tx))
                        ELSE Proceed(w, AfterCreate(
                                [tx EXCEPT !.inserted.ontology_ids =
                                    @ \cup {tx.input.schemas[tx.position].id}]))
            \/ \* transaction.insert_.._references(&schema, ontology_id).await ..?
               /\ tx.operation = operation
               /\ tx.pc = "referencing"
               /\ \E ok \in BOOLEAN :
                    IF ~ok THEN Return(w, "InsertionError", "transport")
                    ELSE Proceed(w, AfterReferences(
                            Stage(tx, inserted_types(tx)[tx.position].references)))
            \/ /\ tx.operation = operation
               /\ Commit(w, "InsertionError")

create_entity_types ==
    CreateTypes("create_entity_types",
                {<<EntityTypeSchemas.TC>>, <<EntityTypeSchemas.TA, EntityTypeSchemas.TC>>})

create_property_types ==
    CreateTypes("create_property_types",
                {<<PropertyTypeSchemas.P2>>, <<PropertyTypeSchemas.P1, PropertyTypeSchemas.P2>>})

\* update_entity_type and update_property_type: transaction.update inserts
\* the new version of the type, then its references are inserted.
UpdateType(operation, schemas) ==
    /\ QueryUnchanged
    /\ \E w \in Writers :
        LET tx == transactions[w]
        IN  \/ \* self.transaction()
               /\ tx.pc = "idle"
               /\ \E schema \in schemas, ok \in BOOLEAN :
                    /\ store' = store
                    /\ transactions' = [transactions EXCEPT ![w] =
                            [tx EXCEPT !.operation = operation,
                                       !.input = [schemas |-> <<schema>>],
                                       !.pc = IF ok THEN "begun" ELSE "returned",
                                       !.result = IF ok THEN "Pending" ELSE "UpdateError",
                                       !.signal = IF ok THEN "none" ELSE "transport"]]
            \/ \* transaction.update(schema, record_created_by_id).await?
               /\ tx.operation = operation
               /\ tx.pc = "begun"
               /\ \E ok \in BOOLEAN :
                    IF ~ok THEN Return(w, "UpdateError", "transport")
                    ELSE Proceed(w, [tx EXCEPT
                            !.pc = "referencing",
                            !.inserted.ontology_ids = @ \cup {tx.input.schemas[1].id}])
            \/ \* transaction.insert_.._references(&schema, ontology_id).await ..?
               /\ tx.operation = operation
               /\ tx.pc = "referencing"
               /\ \E ok \in BOOLEAN :
                    IF ~ok THEN Return(w, "UpdateError", "transport")
                    ELSE Proceed(w, [Stage(tx, tx.input.schemas[1].references)
                                        EXCEPT !.pc = "ready"])
            \/ /\ tx.operation = operation
               /\ Commit(w, "UpdateError")

update_entity_type == UpdateType("update_entity_type", {EntityTypeSchemas.TC})

update_property_type == UpdateType("update_property_type", {PropertyTypeSchemas.P2})

\* The stores the writers work on: entities without links, each with one
\* of its histories.
WriteStores == {st \in KnowledgeStores : st.entity_has_left_entity = {}}

WriteInit ==
    /\ Init
    /\ store \in WriteStores
    /\ query = StructuralQuery("entity", {EntityEditionId("E1", 1)}, zeroed, 0,
                               Interval(0, Inf), "DecisionTime")

NextWrites ==
    \/ update_entity
    \/ create_entity_types
    \/ create_property_types
    \/ update_entity_type
    \/ update_property_type

SpecWrites == WriteInit /\ [][NextWrites]_vars

(***************************************************************************)
(* What a query can discover, stated on the store alone: the frontier      *)
(* items (vertex, remaining depths, interval) reachable from the roots by  *)
(* edges whose counter is not exhausted and which pass the temporal        *)
(* filters, and the edges met on the way.                                  *)
(***************************************************************************)
Item(kind, id, depths, interval) ==
    [kind |-> kind, id |-> id, depths |-> depths, interval |-> interval]

VisibleRows(st, q, entity, interval) ==
    {m \in st.entity_temporal_metadata :
        /\ m.entity = entity
        /\ contains(pinned_axis_column(m, q.variable_time_axis), q.pinned_timestamp)
        /\ overlaps(variable_axis_column(m, q.variable_time_axis), interval)}

Spend(depths, counter) == [depths EXCEPT ![counter] = @ - 1]

\* The steps from one item: pairs <<edge, next item>>.
EntitySteps(st, q, item) ==
    LET var(m) == variable_axis_column(m, q.variable_time_axis)
        sources == VisibleRows(st, q, item.id, item.interval)
    IN  (IF item.depths.entity_type_resolve_depth = 0 THEN {}
         ELSE {<<Edge(vertex_id(s, q.variable_time_axis), "IsOfType", "Outgoing", t[2]),
                 Item("entity_type", t[2],
                      Spend(item.depths, "entity_type_resolve_depth"), item.interval)>> :
                <<s, t>> \in {x \in sources \X st.entity_is_of_type :
                                x[2][1] = x[1].edition}})
        \cup
        (IF item.depths.entity_resolve_depth = 0 THEN {}
         ELSE UNION {
            {<<Edge(vertex_id(x[1], q.variable_time_axis), kd[1], kd[2],
                    EntityIdWithInterval(x[2].entity, intersect(var(x[1]), var(x[2])))),
               Item("entity", x[2].entity, Spend(item.depths, "entity_resolve_depth"),
                    intersect(intersect(var(x[1]), var(x[2])), item.interval))>> :
                x \in {y \in sources \X st.entity_temporal_metadata :
                        /\ y[2] \in VisibleRows(st, q, y[2].entity, item.interval)
                        /\ overlaps(var(y[1]), var(y[2]))
                        /\ IF kd[2] = "Outgoing"
                           THEN <<item.id, y[2].entity>> \in ReferenceTable(st, kd[1])
                           ELSE <<y[2].entity, item.id>> \in ReferenceTable(st, kd[1])}}
            : kd \in KnowledgeGraphEdgeKind \X EdgeDirection})

OntologySteps(table, edge_kind, target_kind, item) ==
    IF item.depths[DepthCounter(edge_kind)] = 0 THEN {}
    ELSE {<<Edge(item.id, edge_kind, "Outgoing", r[2]),
            Item(target_kind, r[2], Spend(item.depths, DepthCounter(edge_kind)),
                 item.interval)>> : r \in {x \in table : x[1] = item.id}}

Steps(st, q, item) ==
    CASE item.kind = "entity" -> EntitySteps(st, q, item)
      [] item.kind = "entity_type" ->
            OntologySteps(st.entity_type_inherits_from, "InheritsFrom", "entity_type", item)
            \cup OntologySteps(st.entity_type_constrains_links_on, "ConstrainsLinksOn",
                               "entity_type", item)
            \cup OntologySteps(st.entity_type_constrains_link_destinations_on,
                               "ConstrainsLinkDestinationsOn", "entity_type", item)
            \cup OntologySteps(st.entity_type_constrains_properties_on,
                               "ConstrainsPropertiesOn", "property_type", item)
      [] item.kind = "property_type" ->
            OntologySteps(st.property_type_constrains_properties_on,
                          "ConstrainsPropertiesOn", "property_type", item)
            \cup OntologySteps(st.property_type_constrains_values_on,
                               "ConstrainsValuesOn", "data_type", item)
      [] OTHER -> {}

\* The roots a query selects.
RootSelection(st, q) ==
    IF q.kind = "entity"
    THEN {vertex_id(m, q.variable_time_axis) :
            m \in read_vec(st, q.filter, q.pinned_timestamp, q.variable_interval,
                           q.variable_time_axis)}
    ELSE q.filter

RootItems(st, q) ==
    IF q.kind = "entity"
    THEN {Item("entity", v.base_id, q.graph_resolve_depths, q.variable_interval) :
            v \in RootSelection(st, q)}
    ELSE {Item(q.kind, v, q.graph_resolve_depths, q.variable_interval) :
            v \in RootSelection(st, q)}

RECURSIVE ReachableItems(_, _, _, _)
ReachableItems(st, q, items, n) ==
    IF n = 0 THEN items
    ELSE ReachableItems(st, q,
            items \cup {x[2] : x \in UNION {Steps(st, q, i) : i \in items}}, n - 1)

Discoverable(st, q) == ReachableItems(st, q, RootItems(st, q), DepthSum(q.graph_resolve_depths))

DiscoverableEdges(st, q) ==
    {x[1] : x \in UNION {Steps(st, q, i) : i \in Discoverable(st, q)}}

DiscoverableIds(st, q, kind) == {i.id : i \in {x \in Discoverable(st, q) : x.kind = kind}}

(***************************************************************************)
(* C1: when a query has returned, an edge is in the subgraph if and only   *)
(* if it is discoverable from a root: every edge on the path is of a kind  *)
(* allowed for its source, passes the temporal filters, and the counters   *)
(* spent along the path do not exceed the query's depths.                  *)
(***************************************************************************)
C1_EdgeIffDiscoverable ==
    pc = "done" => subgraph.edges = DiscoverableEdges(store, query)

(***************************************************************************)
(* C2: every vertex of a returned subgraph is a root or is reached by a    *)
(* path from a root whose edges spend no more of each counter than the     *)
(* query's depths allow.                                                   *)
(***************************************************************************)
C2_DepthMonotonicity ==
    pc = "done" =>
        /\ {v.base_id : v \in subgraph.vertices.entities}
                \subseteq DiscoverableIds(store, query, "entity")
        /\ subgraph.vertices.entity_types \subseteq DiscoverableIds(store, query, "entity_type")
        /\ subgraph.vertices.property_types
                \subseteq DiscoverableIds(store, query, "property_type")
        /\ subgraph.vertices.data_types \subseteq DiscoverableIds(store, query, "data_type")

\* A link entity is reached from the root within the budget while the
\* entity behind it, one hop further, is left out.
C2_Witness ==
    /\ pc = "done"
    /\ query.kind = "entity"
    /\ query.graph_resolve_depths.entity_resolve_depth = 1
    /\ <<"E2", "E1">> \in store.entity_has_left_entity
    /\ <<"E2", "E3">> \in store.entity_has_right_entity
    /\ \E v \in subgraph.vertices.entities : v.base_id = "E2"
    /\ \A v \in subgraph.vertices.entities : v.base_id # "E3"
    /\ \A e \in subgraph.edges :
            e.kind \in KnowledgeGraphEdgeKind => e.target.entity_id # "E3"

(***************************************************************************)
(* C3: when a query has returned, the source and the target of every edge  *)
(* of the subgraph have a vertex entry in the vertex map of their kind.    *)
(***************************************************************************)
SourcePresent(sg, e) ==
    CASE e.kind \in SharedEdgeKind \cup KnowledgeGraphEdgeKind ->
            e.source \in sg.vertices.entities
      [] e.kind = "ConstrainsValuesOn" -> e.source \in sg.vertices.property_types
      [] e.kind = "ConstrainsPropertiesOn" ->
            e.source \in sg.vertices.entity_types \cup sg.vertices.property_types
      [] OTHER -> e.source \in sg.vertices.entity_types

TargetPresent(sg, e) ==
    CASE e.kind \in KnowledgeGraphEdgeKind ->
            \E v \in sg.vertices.entities : v.base_id = e.target.entity_id
      [] e.kind = "ConstrainsValuesOn" -> e.target \in sg.vertices.data_types
      [] e.kind = "ConstrainsPropertiesOn" -> e.target \in sg.vertices.property_types
      [] OTHER -> e.target \in sg.vertices.entity_types

C3_EdgeClosure ==
    pc = "done" =>
        \A e \in subgraph.edges : SourcePresent(subgraph, e) /\ TargetPresent(subgraph, e)

\* The vertex map of the kind a query selects its roots from.
RootVertices(sg, q) ==
    CASE q.kind = "entity" -> sg.vertices.entities
      [] q.kind = "entity_type" -> sg.vertices.entity_types
      [] q.kind = "property_type" -> sg.vertices.property_types

(***************************************************************************)
(* C4: from the moment the entry point has read the roots, and whatever    *)
(* the traversal adds afterwards, the roots of the subgraph are exactly    *)
(* the vertex ids root selection returns and each is a key of the vertex   *)
(* map of its kind.                                                        *)
(***************************************************************************)
C4_RootCoverage ==
    pc # "idle" =>
        /\ subgraph.roots = RootSelection(store, query)
        /\ subgraph.roots \subseteq RootVertices(subgraph, query)

\* A query has returned roots together with vertices the traversal added.
C4_Witness ==
    /\ pc = "done"
    /\ query.kind = "entity"
    /\ subgraph.roots # {}
    /\ subgraph.roots # subgraph.vertices.entities
    /\ subgraph.vertices.entity_types # {}

(***************************************************************************)
(* C5: a query whose four resolve depths are zero resolves no edge at any  *)
(* step, and returns a subgraph whose vertices are exactly its roots.      *)
(***************************************************************************)
C5_ZeroDepthIdentity ==
    query.graph_resolve_depths = zeroed =>
        /\ subgraph.edges = {}
        /\ pc = "done" =>
            /\ RootVertices(subgraph, query) = subgraph.roots
            /\ \A kind \in {"entity", "entity_type", "property_type"} :
                    kind # query.kind =>
                        RootVertices(subgraph, [query EXCEPT !.kind = kind]) = {}
            /\ subgraph.vertices.data_types = {}

\* A zero-depth query has returned its root although the store holds edges
\* that leave it.
C5_Witness ==
    /\ pc = "done"
    /\ query.graph_resolve_depths = zeroed
    /\ subgraph.roots # {}
    /\ \/ /\ query.kind = "entity"
          /\ \E r \in store.entity_has_left_entity :
                \E v \in subgraph.roots : v.base_id \in {r[1], r[2]}
       \/ /\ query.kind = "entity_type"
          /\ \E r \in store.entity_type_inherits_from : r[1] \in subgraph.roots
       \/ /\ query.kind = "property_type"
          /\ \E r \in store.property_type_constrains_values_on : r[1] \in subgraph.roots

(***************************************************************************)
(* A query runs on one task: whenever a step of it is enabled, a step is   *)
(* eventually taken.                                                       *)
(***************************************************************************)
\* The stores the traversal can go round in: an entity linked to itself, an
\* inheritance cycle with a self-edge, property types constraining each other.
CyclicStore(st) ==
    \/ /\ <<"E1", "E1">> \in st.entity_has_left_entity
       /\ <<"E1", "E1">> \in st.entity_has_right_entity
    \/ {<<"TA", "TA">>, <<"TA", "TB">>, <<"TB", "TA">>} \subseteq st.entity_type_inherits_from
    \/ {<<"P1", "P2">>, <<"P2", "P1">>} \subseteq st.property_type_constrains_properties_on

CyclicInit == Init /\ CyclicStore(store)

FairSpec == CyclicInit /\ [][Next]_vars /\ WF_vars(Next)

(***************************************************************************)
(* C6: for every store, with self-edges, inheritance cycles and links in   *)
(* both directions, and every depth vector, each per-kind loop eventually  *)
(* finds its queue empty and the query returns.                            *)
(***************************************************************************)
C6_TraversalTermination == <>(pc = "done")

\* A query over an inheritance cycle with a self-edge has gone twice round
\* the entity type loop and has returned.
C6_Witness ==
    /\ pc = "done"
    /\ query.kind = "entity_type"
    /\ query.graph_resolve_depths.entity_type_resolve_depth = MaxDepthSum
    /\ {<<"TA", "TA">>, <<"TA", "TB">>, <<"TB", "TA">>} \subseteq store.entity_type_inherits_from
    /\ {Edge("TA", "InheritsFrom", "Outgoing", "TA"),
        Edge("TB", "InheritsFrom", "Outgoing", "TA")} \subseteq subgraph.edges

(***************************************************************************)
(* C7: the interval enqueued with a successor entity is the interval of    *)
(* the row it came from, which is a subset of the parent's interval and of *)
(* the variable-axis intervals of the source and target editions of the    *)
(* edge; so every interval in the queue is a subset of the query's.        *)
(***************************************************************************)
EndpointsValidity(st, q, x) ==
    {intersect(variable_axis_column(m, q.variable_time_axis),
               variable_axis_column(t, q.variable_time_axis)) :
        <<m, t>> \in {y \in st.entity_temporal_metadata \X st.entity_temporal_metadata :
                        /\ vertex_id(y[1], q.variable_time_axis) = x.row.source_vertex_id
                        /\ y[2].edition = x.row.target_edition_id}}

C7_IntervalMonotonicity ==
    /\ \A x \in last_rows :
        /\ IsSubinterval(x.row.interval, x.parent.interval)
        /\ \E validity \in EndpointsValidity(store, query, x) :
                IsSubinterval(x.row.interval, validity)
    /\ \A i \in DOMAIN entity_queue :
        /\ IsSubinterval(entity_queue[i].interval, query.variable_interval)
        /\ \/ last_rows = {} /\ entity_queue[i].interval = query.variable_interval
           \/ \E x \in last_rows :
                /\ x.row.target_vertex_id = entity_queue[i].vertex_id
                /\ x.row.interval = entity_queue[i].interval

\* A successor is enqueued at the second hop, from a parent whose interval
\* the first hop has narrowed, with an interval strictly inside the query's.
C7_Witness ==
    /\ pc = "entities"
    /\ \E x \in last_rows :
        /\ x.parent.interval # query.variable_interval
        /\ x.row.interval # query.variable_interval
        /\ \E i \in DOMAIN entity_queue : entity_queue[i].interval = x.row.interval

(***************************************************************************)
(* C8: the vertex id read_entity_edges builds for the entity an edge       *)
(* reaches has as revision id the lower bound of the interval under which  *)
(* the entity is reached.                                                  *)
(***************************************************************************)
C8_RevisionIsLowerBound ==
    \A x \in last_rows : x.row.target_vertex_id.revision_id = lower(x.row.interval)

(***************************************************************************)
(* C9: the same query run a second time on the unchanged store returns a   *)
(* subgraph with the vertices, edges and roots of the first, whatever the  *)
(* order in which maps are iterated and rows are returned.                 *)
(***************************************************************************)
C9_IdempotentRequery ==
    (run = 2 /\ pc = "done") => subgraph = first_result

(***************************************************************************)
(* C10: for a link kind, the pinned timestamp of the query and the         *)
(* interval of a parent, read_entity_edges returns b for the source a in   *)
(* the outgoing direction exactly when it returns a for the source b in    *)
(* the incoming direction, joined from the same two editions and with the  *)
(* same intervals.                                                         *)
(***************************************************************************)
Resolved(st, q, edge_kind, direction, interval) ==
    read_entity_edges(st,
        [i \in 1 .. Cardinality(Entities) |->
            [base_id |-> SetToSeq(Entities)[i], interval |-> interval, depths |-> zeroed]],
        q.pinned_timestamp, q.variable_time_axis, ReferenceTable(st, edge_kind), direction)

Joined(st, q, edge_kind, direction, interval) ==
    EntityEdgeJoin(st,
        [i \in 1 .. Cardinality(Entities) |->
            [base_id |-> SetToSeq(Entities)[i], interval |-> interval, depths |-> zeroed]],
        q.pinned_timestamp, q.variable_time_axis, ReferenceTable(st, edge_kind), direction)

C10_DirectionSwap ==
    \A x \in last_rows :
        /\ {<<r.source_vertex_id.base_id, r.target_id.entity_id, r.target_id.interval,
              r.interval>> :
                r \in Resolved(store, query, x.kind, "Outgoing", x.parent.interval)}
           = {<<r.target_id.entity_id, r.source_vertex_id.base_id, r.target_id.interval,
                r.interval>> :
                r \in Resolved(store, query, x.kind, "Incoming", x.parent.interval)}
        /\ {<<j[2], j[3]>> : j \in Joined(store, query, x.kind, "Outgoing", x.parent.interval)}
           = {<<j[3], j[2]>> : j \in Joined(store, query, x.kind, "Incoming", x.parent.interval)}

\* One pass has resolved a link in both directions between two entities,
\* one of which was created after the other.
C10_Witness ==
    \E x, y \in last_rows :
        /\ x.kind = y.kind
        /\ x.direction = "Outgoing"
        /\ y.direction = "Incoming"
        /\ x.row.target_id.entity_id # x.row.source_vertex_id.base_id
        /\ x.row.interval # query.variable_interval

(***************************************************************************)
(* Error handling of the query path.                                       *)
(***************************************************************************)
\* The payloads the vertex loader installs for the ids of the traversal
\* context are in the vertex maps.
Loaded(st, q, tc, sg) ==
    /\ {vertex_id(m, q.variable_time_axis) :
            m \in read_entities_by_ids(st, tc.entity_edition_ids, q)}
            \subseteq sg.vertices.entities
    /\ tc.entity_type_ids \subseteq sg.vertices.entity_types
    /\ tc.property_type_ids \subseteq sg.vertices.property_types
    /\ tc.data_type_ids \subseteq sg.vertices.data_types

\* C11 (query atomicity): whenever an entry point hands a subgraph to its
\* caller, every traversal loop has run to an empty queue and the vertex
\* loader has run; and once root selection, a resolver call or the vertex
\* loader has failed, or the task was cancelled, no subgraph is handed to
\* the caller at all.
C11_QueryAtomicity ==
    /\ pc = "done" =>
        /\ failure = NoFailure
        /\ entity_queue = <<>>
        /\ entity_type_queue = <<>>
        /\ property_type_queue = <<>>
        /\ data_type_queue = <<>>
        /\ Loaded(store, query, traversal_context, subgraph)
    /\ failure # NoFailure => pc \in {"QueryError", "Panic", "Cancelled"}

\* A query that had inserted edges, and still had a frontier to expand,
\* ended in an error or was cancelled.
C11_Witness ==
    /\ pc \in {"QueryError", "Cancelled"}
    /\ subgraph.edges # {}
    /\ entity_queue # <<>>

\* C12 (resolver errors are never swallowed): a store read that fails with
\* a transport error while a frontier is expanded, in any of the three
\* layers, makes the entry point return QueryError.
C12_ResolverErrorSurfaces ==
    (/\ failure.kind = "transport"
     /\ failure.site \in {"read_shared_edges", "read_entity_edges", "read_ontology_edges",
                          "traverse_property_types"})
        => pc = "QueryError"

\* C13 (the entity edge resolvers fail with QueryError): a transport error
\* and a row that does not parse both make read_shared_edges and
\* read_entity_edges fail with QueryError.
C13_ResolverFailsWithQueryError ==
    failure.site \in {"read_shared_edges", "read_entity_edges"} => pc = "QueryError"

(***************************************************************************)
(* Error handling and races of the write path.                             *)
(***************************************************************************)
\* The update_entity calls that have returned.
ReturnedUpdates ==
    {w \in Writers : transactions[w].operation = "update_entity"
                     /\ transactions[w].pc = "returned"}

Absent(st, entity_id) == \A m \in st.entity_temporal_metadata : m.entity # entity_id

\* C14 (update of an absent entity): an update_entity call whose existence
\* check was answered by the store, and whose entity id is not in the store,
\* returns EntityDoesNotExist and has staged nothing.
C14_UpdateAbsentEntity ==
    \A w \in ReturnedUpdates :
        (/\ transactions[w].statements >= 1
         /\ Absent(store, transactions[w].input.entity_id))
            => /\ transactions[w].result = "EntityDoesNotExist"
               /\ transactions[w].inserted = EmptyStore

C17_WritePathRollback ==
    [][/\ \A w \in Writers :
            (/\ transactions[w].pc # "returned"
             /\ transactions'[w].pc = "returned"
             /\ transactions'[w].result # "Ok")
                => store' = store
       /\ store' # store
            => \E w \in Writers :
                /\ transactions[w].pc = "ready"
                /\ transactions'[w].result = "Ok"
                /\ store' = commit(store, transactions[w])]_vars

\* An operation of each family failed after it had staged rows: an entity
\* type update whose references could not be inserted, and a creation that
\* failed on its second schema; none of their rows is in the store.
C17_Witness ==
    /\ \E w \in Writers :
        /\ transactions[w].operation = "update_entity_type"
        /\ transactions[w].pc = "returned"
        /\ transactions[w].result = "UpdateError"
        /\ transactions[w].statements = 1
    /\ \E w \in Writers :
        /\ transactions[w].operation = "create_property_types"
        /\ transactions[w].pc = "returned"
        /\ transactions[w].result = "InsertionError"
        /\ transactions[w].statements >= 1
    /\ store.ontology_ids = {"TA", "TB", "P1", "D1"}

(***************************************************************************)
(* A query while other tasks write.  get_entity and the resolvers read the *)
(* store through the client at each await; the writers commit between two  *)
(* of these reads.                                                         *)
(***************************************************************************)
\* Stores in which E1 has one edition, created at time 0, and is either no
\* link or a link from E3 to E2.
ConcurrentStores ==
    {st \in KnowledgeStores :
        /\ \A m \in st.entity_temporal_metadata :
                m.decision_time = Interval(0, Inf) /\ m.transaction_time = Interval(0, Inf)
        /\ st.entity_has_left_entity \subseteq {<<"E1", "E3">>}}

\* Queries that select the entity E1 with all its editions.
ConcurrentInit ==
    /\ Init
    /\ store \in ConcurrentStores
    /\ query \in {q \in EntityQueries :
                    q.filter = {EntityEditionId("E1", 1), EntityEditionId("E1", 2)}}

NextConcurrent ==
    \/ get_entity
    \/ traverse_entities
    \/ traverse_entity_types
    \/ traverse_data_types
    \/ load_vertices
    \/ update_entity

SpecConcurrent == ConcurrentInit /\ [][NextConcurrent]_vars

\* The stores of a set and those one committed update of E1 makes of them.
Updated(stores) ==
    stores \cup UNION {{commit(st, UpdateEntityRows(st, "E1", t, "TB")) :
                            t \in UpdateTimes(st, "E1")} :
                        st \in {s \in stores : LatestRows(s, "E1") # {}}}

\* Every state the store can be in while the query runs: each writer
\* commits at most one update.
ConcurrentSnapshots == Updated(Updated(ConcurrentStores))

\* C18 (snapshot isolation of a query): the roots and edges of a returned
\* subgraph are those of the query evaluated on one state of the store,
\* also when a writer commits an update between two reads of the query.
C18_SnapshotIsolation ==
    pc = "done" =>
        \E st \in {s \in ConcurrentSnapshots :
                        s.entity_has_left_entity = store.entity_has_left_entity} :
            /\ subgraph.roots = RootSelection(st, query)
            /\ subgraph.edges = DiscoverableEdges(st, query)

(***************************************************************************)
(* The temporal conditions of the two entity resolvers.                    *)
(***************************************************************************)
\* The pairs of a source row and a target row of the store a row of
\* read_entity_edges can have been joined from.
JoinedEditions(st, q, x) ==
    {y \in st.entity_temporal_metadata \X st.entity_temporal_metadata :
        /\ vertex_id(y[1], q.variable_time_axis) = x.row.source_vertex_id
        /\ y[2].edition = x.row.target_edition_id}

\* The rows of the store an IsOfType edge can have been read from.
TypedEditions(st, q, e) ==
    {m \in st.entity_temporal_metadata :
        /\ vertex_id(m, q.variable_time_axis) = e.source
        /\ <<m.edition, e.target>> \in st.entity_is_of_type}

IsOfTypeEdges(sg) == {e \in sg.edges : e.kind = "IsOfType"}

\* C19 (pinned-axis filter): every row read_entity_edges returns is joined
\* from a source edition and a target edition whose intervals on the pinned
\* axis contain the pinned timestamp of the query, and every IsOfType edge
\* read_shared_edges returns comes from an edition whose interval on the
\* pinned axis contains it; the interval is half-open, so an edition whose
\* pinned interval ends at the pinned timestamp gives no edge.
C19_PinnedAxisFilter ==
    /\ \A x \in last_rows :
        \E y \in JoinedEditions(store, query, x) :
            /\ contains(pinned_axis_column(y[1], query.variable_time_axis),
                        query.pinned_timestamp)
            /\ contains(pinned_axis_column(y[2], query.variable_time_axis),
                        query.pinned_timestamp)
    /\ \A e \in IsOfTypeEdges(subgraph) :
        \E m \in TypedEditions(store, query, e) :
            contains(pinned_axis_column(m, query.variable_time_axis),
                     query.pinned_timestamp)

\* A pass has returned link rows and an IsOfType edge of an entity, while
\* the entity has another edition, of another type at the same revision,
\* whose pinned interval ends at the pinned timestamp: that edge is absent.
C19_Witness ==
    /\ last_rows # {}
    /\ \E e \in IsOfTypeEdges(subgraph) :
        \E m \in store.entity_temporal_metadata, t \in store.entity_is_of_type :
            /\ vertex_id(m, query.variable_time_axis) = e.source
            /\ t[1] = m.edition
            /\ t[2] # e.target
            /\ pinned_axis_column(m, query.variable_time_axis).hi = query.pinned_timestamp
            /\ overlaps(variable_axis_column(m, query.variable_time_axis),
                        query.variable_interval)
            /\ Edge(e.source, "IsOfType", "Outgoing", t[2]) \notin subgraph.edges

\* C20 (three-way intersection): every row read_entity_edges returns is
\* joined from a source and a target edition whose variable-axis intervals
\* overlap each other and the interval of the parent, its interval is the
\* intersection of the three, and that is not empty; so no successor is
\* enqueued with an empty interval.
C20_ThreeWayIntersection ==
    /\ \A x \in last_rows :
        /\ x.row.interval.lo < x.row.interval.hi
        /\ \E y \in JoinedEditions(store, query, x) :
            \E source \in {variable_axis_column(y[1], query.variable_time_axis)},
               target \in {variable_axis_column(y[2], query.variable_time_axis)} :
                /\ overlaps(source, target)
                /\ overlaps(source, x.parent.interval)
                /\ overlaps(target, x.parent.interval)
                /\ x.row.interval = intersect(intersect(source, target), x.parent.interval)
    /\ \A i \in DOMAIN entity_queue :
        entity_queue[i].interval.lo < entity_queue[i].interval.hi

\* A row whose interval is narrower than the parent's and than the source
\* edition's: the target edition has narrowed it; its successor is
\* enqueued with that interval.
C20_Witness ==
    \E x \in last_rows :
        /\ x.row.interval # x.parent.interval
        /\ \A y \in JoinedEditions(store, query, x) :
                x.row.interval # variable_axis_column(y[1], query.variable_time_axis)
        /\ \E i \in DOMAIN entity_queue : entity_queue[i].interval = x.row.interval

(***************************************************************************)
(* The vertex loader.                                                      *)
(***************************************************************************)
\* The vertex ids of the entity editions the traversal recorded.
RecordedEntities(st, q, tc) ==
    {vertex_id(m, q.variable_time_axis) :
        m \in {x \in st.entity_temporal_metadata : x.edition \in tc.entity_edition_ids}}

\* C21 (the loader discovers no edges): load_vertices runs when every
\* traversal loop has ended with its queue empty and no read has failed; it
\* leaves the edges and the roots of the subgraph as they are, and the
\* vertices it adds are those of the ids recorded in the traversal context.
C21_LoaderDiscoversNoEdges ==
    [][(pc = "load" /\ pc' = "done") =>
        /\ failure = NoFailure
        /\ entity_queue = <<>> /\ entity_type_queue = <<>>
        /\ property_type_queue = <<>> /\ data_type_queue = <<>>
        /\ subgraph'.edges = subgraph.edges
        /\ subgraph'.roots = subgraph.roots
        /\ subgraph'.vertices.entities \ subgraph.vertices.entities
                \subseteq RecordedEntities(store, query, traversal_context)
        /\ subgraph'.vertices.entity_types \ subgraph.vertices.entity_types
                \subseteq traversal_context.entity_type_ids
        /\ subgraph'.vertices.property_types \ subgraph.vertices.property_types
                \subseteq traversal_context.property_type_ids
        /\ subgraph'.vertices.data_types \ subgraph.vertices.data_types
                \subseteq traversal_context.data_type_ids]_vars

\* The loader has run on a subgraph with edges and has added the payload
\* of an entity that is no root, while the store holds an entity that the
\* traversal did not record and that is not in the subgraph.
C21_Witness ==
    /\ pc = "done"
    /\ subgraph.edges # {}
    /\ subgraph.vertices.entities \ subgraph.roots # {}
    /\ \E m \in store.entity_temporal_metadata :
        /\ contains(pinned_axis_column(m, query.variable_time_axis), query.pinned_timestamp)
        /\ overlaps(variable_axis_column(m, query.variable_time_axis),
                    query.variable_interval)
        /\ vertex_id(m, query.variable_time_axis) \notin subgraph.vertices.entities

(***************************************************************************)
(* Depth vectors: the decrement, the counter of each edge kind, and what a *)
(* pass admits.                                                            *)
(***************************************************************************)
DepthCounters ==
    {"data_type_resolve_depth", "property_type_resolve_depth",
     "entity_type_resolve_depth", "entity_resolve_depth"}

\* The depth vectors of the triples waiting in the queues.
QueuedDepths ==
    {entity_queue[i].depths : i \in DOMAIN entity_queue}
    \cup {entity_type_queue[i].depths : i \in DOMAIN entity_type_queue}
    \cup {property_type_queue[i].depths : i \in DOMAIN property_type_queue}
    \cup {data_type_queue[i].depths : i \in DOMAIN data_type_queue}

\* d with one counter one less and the other three as they are.
IsDecrementOf(new, d) ==
    \E c \in DepthCounters :
        /\ d[c] > 0
        /\ new[c] = d[c] - 1
        /\ \A o \in DepthCounters \ {c} : new[o] = d[o]

\* The edge kinds a pass of traverse_entities decrements for.
EntityEdgeKinds ==
    {<<"IsOfType", "Outgoing">>} \cup {<<e.kind, e.direction>> : e \in Range(entity_edges)}

\* C22 (depth decrement): for every depth vector in a queue and every edge
\* kind, the decrement returns no vector exactly when the counter of that
\* kind is zero, and otherwise a vector with that counter one less and the
\* three others unchanged; the vectors a pass pushes for its resolver calls
\* are decrements of vectors of the queue, and no counter of a queued
\* vector is below zero or above the counter of the query.
C22_DepthDecrement ==
    /\ \A d \in QueuedDepths :
        /\ \A c \in DepthCounters : d[c] \in 0 .. query.graph_resolve_depths[c]
        /\ \A edge_kind \in KnowledgeGraphEdgeKind \cup OntologyEdgeKind \cup SharedEdgeKind,
              direction \in EdgeDirection :
            \E r \in {decrement_depth_for_edge(d, edge_kind, direction)} :
                /\ r = None <=> d[DepthCounter(edge_kind)] = 0
                /\ r # None =>
                    /\ IsDecrementOf(r[1], d)
                    /\ r[1][DepthCounter(edge_kind)] = d[DepthCounter(edge_kind)] - 1
    /\ \A k \in EntityEdgeKinds :
        \A x \in Range(EntityBatch(entity_queue, k[1], k[2])) :
            \E i \in DOMAIN entity_queue :
                /\ entity_queue[i].vertex_id.base_id = x.base_id
                /\ IsDecrementOf(x.depths, entity_queue[i].depths)
    /\ \A edge_kind \in {"ConstrainsPropertiesOn"} \cup Range(entity_type_edges) :
        \A x \in Range(OntologyBatch(entity_type_queue, edge_kind)) :
            \E i \in DOMAIN entity_type_queue :
                /\ entity_type_queue[i].vertex_id = x.vertex_id
                /\ IsDecrementOf(x.depths, entity_type_queue[i].depths)

\* A triple reached over a link waits with its entity counter at zero and
\* its entity type counter above zero: the decrement gives a vector for
\* IsOfType and none for a link.
C22_Witness ==
    \E i \in DOMAIN entity_queue :
        /\ entity_queue[i].depths # query.graph_resolve_depths
        /\ entity_queue[i].depths.entity_resolve_depth = 0
        /\ entity_queue[i].depths.entity_type_resolve_depth > 0
        /\ EntityBatch(entity_queue, "IsOfType", "Outgoing") # <<>>
        /\ EntityBatch(entity_queue, "HasLeftEntity", "Outgoing") = <<>>

\* The depth vectors of a batch are those of the triples of the queue whose
\* given counter is above zero, in the order of the queue, with that
\* counter one less.
Consumes(batch_depths, queue, counter) ==
    \E admitted \in {SelectSeq(queue, LAMBDA t : t.depths[counter] > 0)} :
        /\ Len(batch_depths) = Len(admitted)
        /\ \A i \in DOMAIN admitted :
                batch_depths[i] = [admitted[i].depths EXCEPT ![counter] = @ - 1]

BatchDepths(batch) == [i \in DOMAIN batch |-> batch[i].depths]

\* C23 (counter consumed per edge kind): the batches a pass builds from a
\* queue consume the entity type counter for IsOfType, InheritsFrom,
\* ConstrainsLinksOn and ConstrainsLinkDestinationsOn, the property type
\* counter for ConstrainsPropertiesOn, the data type counter for
\* ConstrainsValuesOn, and the entity counter for HasLeftEntity and
\* HasRightEntity in the outgoing and in the incoming direction.
C23_CounterPerEdgeKind ==
    /\ Consumes(BatchDepths(EntityBatch(entity_queue, "IsOfType", "Outgoing")),
                entity_queue, "entity_type_resolve_depth")
    /\ \A edge_kind \in {"HasLeftEntity", "HasRightEntity"},
          direction \in {"Outgoing", "Incoming"} :
            Consumes(BatchDepths(EntityBatch(entity_queue, edge_kind, direction)),
                     entity_queue, "entity_resolve_depth")
    /\ \A edge_kind \in {"InheritsFrom", "ConstrainsLinksOn", "ConstrainsLinkDestinationsOn"} :
            Consumes(BatchDepths(OntologyBatch(entity_type_queue, edge_kind)),
                     entity_type_queue, "entity_type_resolve_depth")
    /\ Consumes(BatchDepths(OntologyBatch(entity_type_queue, "ConstrainsPropertiesOn")),
                entity_type_queue, "property_type_resolve_depth")
    /\ Consumes(PropertyTypeDepths(property_type_queue, "ConstrainsPropertiesOn"),
                property_type_queue, "property_type_resolve_depth")
    /\ Consumes(PropertyTypeDepths(property_type_queue, "ConstrainsValuesOn"),
                property_type_queue, "data_type_resolve_depth")

\* An entity type waits with its entity type counter at zero and its
\* property type counter above zero: it is a source for
\* ConstrainsPropertiesOn and for no other edge kind.
C23_Witness ==
    \E i \in DOMAIN entity_type_queue :
        /\ entity_type_queue[i].depths.entity_type_resolve_depth = 0
        /\ entity_type_queue[i].depths.property_type_resolve_depth > 0
        /\ OntologyBatch(entity_type_queue, "ConstrainsPropertiesOn") # <<>>
        /\ OntologyBatch(entity_type_queue, "InheritsFrom") = <<>>

(***************************************************************************)
(* Point-in-time queries (get_entity_by_timestamp, get_latest_entity).     *)
(***************************************************************************)
\* A query for the entity E1 by its id, with no depths, at one timestamp of
\* the variable axis.
IsPointInTimeQuery(q) ==
    /\ q.kind = "entity"
    /\ q.filter = {EntityEditionId("E1", 1), EntityEditionId("E1", 2)}
    /\ q.graph_resolve_depths = zeroed
    /\ q.variable_interval.hi = q.variable_interval.lo + 1

\* The entity had been created at the point of the two axes the query
\* looks at.
ExistsAt(st, entity, q) ==
    \E m \in st.entity_temporal_metadata :
        /\ m.entity = entity
        /\ lower(variable_axis_column(m, q.variable_time_axis)) <= q.variable_interval.lo
        /\ lower(pinned_axis_column(m, q.variable_time_axis)) <= q.pinned_timestamp

\* C24 (point-in-time uniqueness): a query by entity id with no depths at
\* one timestamp returns exactly one entity vertex when the entity exists
\* at that timestamp, whatever editions updates have created, and none
\* when it does not.
C24_PointInTimeUniqueness ==
    (pc = "done" /\ IsPointInTimeQuery(query)) =>
        Cardinality(subgraph.vertices.entities)
            = (IF ExistsAt(store, "E1", query) THEN 1 ELSE 0)

\* The query has returned one vertex of an entity that has two editions,
\* both visible at the pinned timestamp.
C24_Witness ==
    /\ pc = "done"
    /\ IsPointInTimeQuery(query)
    /\ Cardinality(subgraph.vertices.entities) = 1
    /\ \E m, n \in store.entity_temporal_metadata :
        /\ m.entity = "E1" /\ n.entity = "E1"
        /\ m.edition # n.edition
        /\ contains(pinned_axis_column(m, query.variable_time_axis), query.pinned_timestamp)
        /\ contains(pinned_axis_column(n, query.variable_time_axis), query.pinned_timestamp)

(***************************************************************************)
(* Scheduling: what is enqueued, how often, and with which depths.         *)
(***************************************************************************)
\* The vertex ids waiting in a queue, in its order.
QueuedIds(queue) == [i \in DOMAIN queue |-> queue[i].vertex_id]

NoDuplicates(ids) == \A i, j \in DOMAIN ids : ids[i] = ids[j] => i = j

\* C25 (dedup at enqueue): a target is enqueued only if its id is not yet
\* scheduled for its kind, so no queue holds a vertex id twice.
C25_DedupAtEnqueue ==
    /\ NoDuplicates(QueuedIds(entity_queue))
    /\ NoDuplicates(QueuedIds(entity_type_queue))
    /\ NoDuplicates(QueuedIds(property_type_queue))
    /\ NoDuplicates(QueuedIds(data_type_queue))

\* a is componentwise at least b.
Dominates(a, b) == \A c \in DepthCounters : a[c] >= b[c]

\* No triple of a queue comes after a triple of the same vertex whose
\* depth vector dominates its own.
NoRegressionIn(queue) ==
    \A i, j \in DOMAIN queue :
        (i < j /\ queue[i].vertex_id = queue[j].vertex_id)
            => ~Dominates(queue[i].depths, queue[j].depths)

\* The roots are scheduled with the depths of the query, which dominate
\* every other vector: a root vertex waits in its queue with the depths of
\* the query only.
RootsScheduledOnce(queue) ==
    \A i \in DOMAIN queue :
        queue[i].vertex_id \in subgraph.roots
            => queue[i].depths = query.graph_resolve_depths

\* C26 (no depth regression): a vertex is scheduled with a depth vector
\* only if no earlier scheduling of the same vertex carried a vector that
\* is componentwise at least as large.
C26_NoDepthRegression ==
    /\ NoRegressionIn(entity_queue)
    /\ NoRegressionIn(entity_type_queue)
    /\ NoRegressionIn(property_type_queue)
    /\ NoRegressionIn(data_type_queue)
    /\ query.kind = "entity" => RootsScheduledOnce(entity_queue)
    /\ query.kind = "entity_type" => RootsScheduledOnce(entity_type_queue)
    /\ query.kind = "property_type" => RootsScheduledOnce(property_type_queue)

\* The triples a pass appended to a queue it extends.
Appended(old, new) == Range(SubSeq(new, Len(old) + 1, Len(new)))

\* What the rows of one batched call schedule when every row is paired with
\* the triple that is its source: the target with the decremented depths
\* of that triple.
TargetsOf(queue, rows, edge_kind) ==
    {[vertex_id |-> x[1].target,
      depths |-> decrement_depth_for_edge(x[2].depths, edge_kind, "Outgoing")[1]] :
        x \in {y \in rows \X Range(queue) :
                /\ y[2].vertex_id = y[1].source
                /\ decrement_depth_for_edge(y[2].depths, edge_kind, "Outgoing") # None}}

\* The rows the call for an edge kind returns in a pass of
\* traverse_entity_types.
EntityTypeRows(queue, edge_kind) ==
    SelectIn(ReferenceTable(store, edge_kind), PropertyTypeIds(queue, edge_kind))

\* C27 (source-to-depth correspondence): in a pass of an ontology loop the
\* triples enqueued are, for every row returned, the row's target with the
\* decremented depths of the row's source, whatever the number of targets
\* of a source and the order of the rows; no returned row is dropped.
C27_SourceDepthCorrespondence ==
    [][/\ (reads' # reads /\ reads'.loop = "entity_types") =>
            /\ Appended(property_type_queue, property_type_queue') =
                    TargetsOf(entity_type_queue,
                              EntityTypeRows(entity_type_queue, "ConstrainsPropertiesOn"),
                              "ConstrainsPropertiesOn")
            /\ Range(entity_type_queue') =
                    UNION {TargetsOf(entity_type_queue,
                                     EntityTypeRows(entity_type_queue, k), k) :
                            k \in Range(entity_type_edges)}
       /\ (reads' # reads /\ reads'.loop = "property_types") =>
            /\ Appended(data_type_queue, data_type_queue') =
                    TargetsOf(property_type_queue,
                              SelectIn(store.property_type_constrains_values_on,
                                       ValuesFilter(property_type_queue)),
                              "ConstrainsValuesOn")
            /\ Range(property_type_queue') =
                    TargetsOf(property_type_queue,
                              SelectIn(store.property_type_constrains_properties_on,
                                       PropertiesFilter(property_type_queue)),
                              "ConstrainsPropertiesOn")]_vars

\* The ids of the triples of a queue whose given counter is above zero, in
\* the order of the queue.
AdmittedIds(queue, counter) ==
    LET admitted == SelectSeq(queue, LAMBDA t : t.depths[counter] > 0)
    IN  [i \in DOMAIN admitted |-> admitted[i].vertex_id]

\* The ids a pass of traverse_entities passes to the call for an edge kind.
EntitySources(queue, edge_kind, direction) ==
    LET batch == EntityBatch(queue, edge_kind, direction)
    IN  [i \in DOMAIN batch |-> batch[i].base_id]

\* C28 (per-kind admission): a triple of a queue is a source of the call
\* for an edge kind of its vertex kind exactly when the counter that edge
\* kind consumes is above zero in its depths, whatever the other counters.
C28_PerKindAdmission ==
    /\ EntitySources(entity_queue, "IsOfType", "Outgoing") =
            [i \in DOMAIN AdmittedIds(entity_queue, "entity_type_resolve_depth") |->
                AdmittedIds(entity_queue, "entity_type_resolve_depth")[i].base_id]
    /\ \A e \in Range(entity_edges) :
            EntitySources(entity_queue, e.kind, e.direction) =
                [i \in DOMAIN AdmittedIds(entity_queue, "entity_resolve_depth") |->
                    AdmittedIds(entity_queue, "entity_resolve_depth")[i].base_id]
    /\ \A edge_kind \in Range(entity_type_edges) :
            PropertyTypeIds(entity_type_queue, edge_kind) =
                AdmittedIds(entity_type_queue, "entity_type_resolve_depth")
    /\ PropertyTypeIds(entity_type_queue, "ConstrainsPropertiesOn") =
            AdmittedIds(entity_type_queue, "property_type_resolve_depth")
    /\ ValuesFilter(property_type_queue) =
            AdmittedIds(property_type_queue, "data_type_resolve_depth")
    /\ PropertiesFilter(property_type_queue) =
            AdmittedIds(property_type_queue, "property_type_resolve_depth")

(***************************************************************************)
(* Store reads of a pass.                                                  *)
(***************************************************************************)
\* The queue a per-kind loop drains.
QueueOf(loop) ==
    CASE loop = "entities" -> entity_queue
      [] loop = "entity_types" -> entity_type_queue
      [] loop = "property_types" -> property_type_queue
      [] OTHER -> <<>>

\* C29 (reads for non-empty groups only): every store read a pass issues
\* is for an edge kind and direction for which a triple of the queue it
\* drained admitted a decrement.
C29_NoReadForEmptyGroup ==
    [][reads' # reads =>
        \A i \in DOMAIN reads'.calls :
            \E t \in Range(QueueOf(reads'.loop)) :
                decrement_depth_for_edge(t.depths, reads'.calls[i].edge_kind,
                                         reads'.calls[i].direction) # None]_vars

\* The depth counter that bounds the passes of a per-kind loop: the one
\* the edges between vertices of that kind consume.
LoopCounter(loop) ==
    CASE loop = "entities" -> "entity_resolve_depth"
      [] loop = "entity_types" -> "entity_type_resolve_depth"
      [] loop = "property_types" -> "property_type_resolve_depth"

\* C30 (batching bound): a pass issues at most one read per edge kind and
\* direction, whatever the number of triples in its queue, and the number
\* of the pass in its loop is at most the counter of the query for that
\* loop plus one.
C30_BatchingBound ==
    /\ \A i, j \in DOMAIN reads.calls :
            (/\ reads.calls[i].edge_kind = reads.calls[j].edge_kind
             /\ reads.calls[i].direction = reads.calls[j].direction) => i = j
    /\ reads.loop # "none" =>
            reads.layer <= query.graph_resolve_depths[LoopCounter(reads.loop)] + 1

\* The second pass of traverse_entities has read once for an edge kind
\* with two or more sources in the batch.
C30_Witness ==
    /\ reads.loop = "entities"
    /\ reads.layer = 2
    /\ \E i \in DOMAIN reads.calls : reads.calls[i].sources >= 2

(***************************************************************************)
(* The order of the per-kind loops of a query.                             *)
(***************************************************************************)
\* The position of a loop in the chain of calls traverse_entities ->
\* traverse_entity_types -> traverse_property_types -> traverse_data_types
\* -> load_vertices.
KindOrder(position) ==
    CASE position = "entities" -> 1
      [] position = "entity_types" -> 2
      [] position = "property_types" -> 3
      [] position = "data_types" -> 4
      [] position = "load" -> 5
      [] OTHER -> 0

\* C31 (cross-kind ordering): a query expands entities, then entity types,
\* then property types, then data types.  A loop is left only with its own
\* queue empty; once a later loop runs, the queues of the earlier kinds
\* stay empty and every read is one of the running loop.
C31_CrossKindOrdering ==
    [][(KindOrder(pc) > 0) =>
        /\ pc' # "done" => KindOrder(pc') >= KindOrder(pc)
        /\ (pc = "entities" /\ pc' # pc) => entity_queue' = <<>>
        /\ (pc = "entity_types" /\ pc' # pc) => entity_type_queue' = <<>>
        /\ (pc = "property_types" /\ pc' # pc) => property_type_queue' = <<>>
        /\ KindOrder(pc) > 1 => entity_queue' = <<>>
        /\ KindOrder(pc) > 2 => entity_type_queue' = <<>>
        /\ KindOrder(pc) > 3 => property_type_queue' = <<>>
        /\ reads' # reads => reads'.loop = pc]_vars

\* A query for entities has left the entity loop with entity types
\* waiting and has run a pass of the entity type loop.
C31_Witness ==
    /\ query.kind = "entity"
    /\ reads.loop = "entity_types"
    /\ entity_queue = <<>>
    /\ pc \in {"entity_types", "property_types", "data_types"}

(***************************************************************************)
(* Root selection.                                                         *)
(***************************************************************************)
\* C32 (a failure of root selection comes before any traversal): when the
\* root read of an entry point fails, the entry point returns QueryError
\* with no frontier seeded, no resolver read and no vertex read issued, and
\* the query takes no further step.
C32_RootFailureBeforeTraversal ==
    /\ [](failure.site = "read_vec" =>
            /\ pc = "QueryError"
            /\ reads = NoReads
            /\ entity_queue = <<>> /\ entity_type_queue = <<>>
            /\ property_type_queue = <<>> /\ data_type_queue = <<>>
            /\ subgraph.edges = {}
            /\ subgraph.vertices = NewSubgraph.vertices)
    /\ [][failure.site # "read_vec"]_vars

\* The root read of a query with depths to spend has failed.
C32_Witness ==
    /\ failure.site = "read_vec"
    /\ pc = "QueryError"
    /\ DepthSum(query.graph_resolve_depths) > 0

LayeredStores ==
    {[EmptyStore EXCEPT
        !.ontology_ids = {"TA", "TB", "P1", "P2", "P3", "D1", "D2"},
        !.entity_type_inherits_from = {<<"TA", "TB">>},
        !.entity_type_constrains_properties_on = cpo,
        !.property_type_constrains_properties_on = ppo,
        !.property_type_constrains_values_on = cvo]
     : cpo \in SUBSET {<<"TA", "P1">>, <<"TA", "P2">>, <<"TB", "P2">>},
       ppo \in SUBSET {<<"P1", "P2">>, <<"P2", "P3">>},
       cvo \in SUBSET {<<"P1", "D1">>, <<"P2", "D1">>, <<"P2", "D2">>}}

LayeredQueries ==
    {StructuralQuery("entity_type", {"TA"}, d, 0, Interval(0, Inf), "DecisionTime") :
        d \in {x \in GraphResolveDepths : /\ x.entity_resolve_depth = 0
                                          /\ DepthSum(x) <= MaxDepthSum + 1}}

LayeredInit ==
    /\ store \in LayeredStores
    /\ query \in LayeredQueries
    /\ pc = "idle"
    /\ entity_queue = <<>>
    /\ entity_type_queue = <<>>
    /\ property_type_queue = <<>>
    /\ data_type_queue = <<>>
    /\ traversal_context = NewTraversalContext
    /\ subgraph = NewSubgraph
    /\ last_rows = {}
    /\ run = 1
    /\ first_result = NewSubgraph
    /\ failure = NoFailure
    /\ transactions = [w \in Writers |-> NewTransaction]
    /\ reads = NoReads
    /\ EngineIdle

NextLayered ==
    \/ get_entity_type
    \/ traverse_entity_types
    \/ traverse_property_types
    \/ traverse_data_types
    \/ load_vertices

SpecLayered == LayeredInit /\ [][NextLayered]_vars

\* The store holds an edge of the given tables from the vertex of the
\* triple t to the vertex of the triple x.
OntologyEdgeIn(tables, t, x) == <<t.vertex_id, x.vertex_id>> \in UNION tables

\* The entity of x is an endpoint of a link whose other endpoint, or the
\* link itself, is the entity of t.
Linked(t, x) ==
    \E r \in store.entity_has_left_entity \cup store.entity_has_right_entity :
        {r[1], r[2]} = {t.vertex_id.base_id, x.vertex_id.base_id}

\* An edition of the entity of t is of the entity type of x.
TypedBy(t, x) ==
    \E r \in store.entity_is_of_type :
        r[1][1] = t.vertex_id.base_id /\ r[2] = x.vertex_id

\* Every triple of `new' was resolved from a triple of `queue' whose depths
\* it carries with one counter one less.
DecrementedFrom(new, queue, resolved_from(_, _)) ==
    \A x \in new :
        \E t \in Range(queue) :
            /\ resolved_from(t, x)
            /\ IsDecrementOf(x.depths, t.depths)

\* C34 (the budget decreases by one along an enqueue): every triple a pass
\* enqueues carries the depths of the triple it was resolved from with
\* exactly one counter one less and the three others unchanged, so the
\* decrements of one triple for its edge kinds do not add up.
C34_BudgetDecreases ==
    [][/\ (reads' # reads /\ reads'.loop = "entities") =>
            /\ DecrementedFrom(Range(entity_queue'), entity_queue, Linked)
            /\ DecrementedFrom(Appended(entity_type_queue, entity_type_queue'),
                               entity_queue, TypedBy)
       /\ (reads' # reads /\ reads'.loop = "entity_types") =>
            /\ DecrementedFrom(Range(entity_type_queue'), entity_type_queue,
                    LAMBDA t, x : OntologyEdgeIn(
                        {store.entity_type_inherits_from,
                         store.entity_type_constrains_links_on,
                         store.entity_type_constrains_link_destinations_on}, t, x))
            /\ DecrementedFrom(Appended(property_type_queue, property_type_queue'),
                    entity_type_queue,
                    LAMBDA t, x : OntologyEdgeIn(
                        {store.entity_type_constrains_properties_on}, t, x))
       /\ (reads' # reads /\ reads'.loop = "property_types") =>
            /\ DecrementedFrom(Range(property_type_queue'), property_type_queue,
                    LAMBDA t, x : OntologyEdgeIn(
                        {store.property_type_constrains_properties_on}, t, x))
            /\ DecrementedFrom(Appended(data_type_queue, data_type_queue'),
                    property_type_queue,
                    LAMBDA t, x : OntologyEdgeIn(
                        {store.property_type_constrains_values_on}, t, x))]_vars

(***************************************************************************)
(* Creation of ontology types.                                             *)
(***************************************************************************)
ReferenceTables == DOMAIN EmptyStore \ {"ontology_ids"}

CreateOperations == {"create_entity_types", "create_property_types"}

\* The schemas of the batch of a creation for which create returned an id.
CreatedSchemas(tx) ==
    {schema \in Range(tx.input.schemas) : schema.id \in tx.inserted.ontology_ids}

\* C35 (references after creation): while a creation still creates the
\* types of its batch it has inserted no reference row; the reference rows
\* it inserts are those of the types it created, none for a type the
\* conflict behaviour skipped; and it returns Ok, having committed, only
\* with the reference rows of every created type inserted.
C35_ReferencesAfterCreation ==
    \A w \in Writers :
        \E tx \in {transactions[w]} :
            tx.operation \in CreateOperations =>
                /\ tx.pc = "creating" =>
                        \A table \in ReferenceTables : tx.inserted[table] = {}
                /\ \A table \in ReferenceTables :
                        tx.inserted[table] \subseteq
                            UNION {schema.references[table] : schema \in CreatedSchemas(tx)}
                /\ tx.result = "Ok" =>
                        \A schema \in CreatedSchemas(tx), table \in ReferenceTables :
                            /\ schema.references[table] \subseteq tx.inserted[table]
                            /\ schema.references[table] \subseteq store[table]

\* A creation has returned Ok for a batch with the type TC, which another
\* creation had inserted before and which was skipped here: the store
\* holds the references of TC and this transaction inserted none.
C35_Witness ==
    \E w \in Writers :
        /\ transactions[w].operation = "create_entity_types"
        /\ transactions[w].result = "Ok"
        /\ transactions[w].input.on_conflict = "Skip"
        /\ "TC" \notin transactions[w].inserted.ontology_ids
        /\ transactions[w].inserted.entity_type_inherits_from = {}
        /\ <<"TC", "TA">> \in store.entity_type_inherits_from

(***************************************************************************)
(* Metaversion (packages/engine/src/datastore/batch/metaversion.rs): the   *)
(* memory and batch versions of a batch, two u32 counters.  A u32 is kept  *)
(* as its two 16-bit halves.                                               *)
(***************************************************************************)
MaxCalls == 2

HalfMax == 65535

u32(hi, lo) == [hi |-> hi, lo |-> lo]

U32_MAX == u32(HalfMax, HalfMax)

Le(x, y) == x.hi < y.hi \/ (x.hi = y.hi /\ x.lo <= y.lo)

\* x + 1 without overflow; x is below U32_MAX.
Succ(x) == IF x.lo < HalfMax THEN u32(x.hi, x.lo + 1) ELSE u32(x.hi + 1, 0)

\* `x += 1' on a u32: at U32_MAX the build with overflow checks panics and
\* the build without them wraps to zero.
AddAssignOne(x, checks) ==
    IF x # U32_MAX THEN [value |-> Succ(x), panicked |-> FALSE]
    ELSE IF checks THEN [value |-> x, panicked |-> TRUE]
    ELSE [value |-> u32(0, 0), panicked |-> FALSE]

\* Metaversion::new
Metaversion(memory, batch) == [memory |-> memory, batch |-> batch]

\* Metaversion::default(), in the halves of its counters.
Metaversion_default == Metaversion(u32(0, 0), u32(0, 0))

\* The outcome of a call on a Metaversion: the value it leaves and whether
\* it returned.
Outcome(value, panicked) ==
    [value |-> value, result |-> IF panicked THEN "panicked" ELSE "returned"]

\* Metaversion::increment_batch: self.batch += 1
increment_batch(self, checks) ==
    LET b == AddAssignOne(self.batch, checks)
    IN  Outcome([self EXCEPT !.batch = b.value], b.panicked)

\* Metaversion::increment: self.memory += 1; self.batch += 1
increment(self, checks) ==
    LET m == AddAssignOne(self.memory, checks)
    IN  IF m.panicked THEN Outcome(self, TRUE)
        ELSE increment_batch([self EXCEPT !.memory = m.value], checks)

\* A BufferChange: whether the buffer was resized and whether it was
\* shifted.
BufferChange == [resized : BOOLEAN, shifted : BOOLEAN]

\* increment_with with the two tests in the other order.
increment_with_ShiftedFirst(self, change, checks) ==
    IF change.shifted THEN increment_batch(self, checks)
    ELSE IF change.resized THEN increment(self, checks)
    ELSE Outcome(self, FALSE)

\* Metaversion::increment_with
increment_with(self, change, checks) ==
    IF change.resized THEN increment(self, checks)
    ELSE IF change.shifted THEN increment_batch(self, checks)
    ELSE Outcome(self, FALSE)

\* Metaversion::update
update(self, state) == Outcome(Metaversion(state.memory, state.batch), FALSE)

\* The counter values a run starts from: zero, one, and the two largest.
CounterValues == {u32(0, 0), u32(0, 1), u32(HalfMax, HalfMax - 1), U32_MAX}

\* Metaversions that `memory' calls of increment followed by
\* `batch - memory' calls of increment_batch make of the default value.
ReachableMetaversions ==
    {Metaversion(p[1], p[2]) : p \in {q \in CounterValues \X CounterValues : Le(q[1], q[2])}}

MetaversionInit ==
    /\ store = EmptyStore
    /\ query = StructuralQuery("entity", {}, zeroed, 0, Interval(0, Inf), "DecisionTime")
    /\ pc = "idle"
    /\ entity_queue = <<>>
    /\ entity_type_queue = <<>>
    /\ property_type_queue = <<>>
    /\ data_type_queue = <<>>
    /\ traversal_context = NewTraversalContext
    /\ subgraph = NewSubgraph
    /\ last_rows = {}
    /\ run = 1
    /\ first_result = NewSubgraph
    /\ failure = NoFailure
    /\ transactions = [w \in Writers |-> NewTransaction]
    /\ reads = NoReads
    /\ metaversion \in ReachableMetaversions
    /\ new_state \in ReachableMetaversions
    /\ pool = <<>>
    /\ message_map = <<>>
    /\ sim_packages = <<>>
    /\ overflow_checks \in BOOLEAN
    /\ call = NoCall

\* A call on one of the two Metaversions, which leaves the other alone;
\* on_metaversion and on_new_state are its outcomes on the one and on the
\* other.  A panic ends the run.
MetaversionCall(name, argument, on_metaversion, on_new_state) ==
    /\ call.count < MaxCalls
    /\ call.result # "panicked"
    /\ \/ \E o \in {on_metaversion} :
            /\ metaversion' = o.value
            /\ new_state' = new_state
            /\ call' = [name |-> name, self |-> "metaversion", argument |-> argument,
                        result |-> o.result, count |-> call.count + 1]
       \/ \E o \in {on_new_state} :
            /\ new_state' = o.value
            /\ metaversion' = metaversion
            /\ call' = [name |-> name, self |-> "new_state", argument |-> argument,
                        result |-> o.result, count |-> call.count + 1]
    /\ UNCHANGED <<graph_vars, pool, message_map, sim_packages, overflow_checks>>

Metaversion_increment ==
    MetaversionCall("increment", <<>>, increment(metaversion, overflow_checks),
                    increment(new_state, overflow_checks))

Metaversion_increment_batch ==
    MetaversionCall("increment_batch", <<>>, increment_batch(metaversion, overflow_checks),
                    increment_batch(new_state, overflow_checks))

Metaversion_increment_with ==
    \E change \in BufferChange :
        MetaversionCall("increment_with", change,
                        increment_with(metaversion, change, overflow_checks),
                        increment_with(new_state, change, overflow_checks))

\* metaversion.update(&new_state)
Metaversion_update ==
    /\ call.count < MaxCalls
    /\ call.result # "panicked"
    /\ \E o \in {update(metaversion, new_state)} :
        /\ metaversion' = o.value
        /\ call' = [name |-> "update", self |-> "metaversion", argument |-> new_state,
                    result |-> o.result, count |-> call.count + 1]
    /\ UNCHANGED <<graph_vars, new_state, pool, message_map, sim_packages, overflow_checks>>

NextMetaversion ==
    \/ Metaversion_increment
    \/ Metaversion_increment_batch
    \/ Metaversion_increment_with
    \/ Metaversion_update

SpecMetaversion == MetaversionInit /\ [][NextMetaversion]_vars

\* The Metaversion a call was made on, before and after the call.
SelfBefore == IF call'.self = "metaversion" THEN metaversion ELSE new_state

SelfAfter == IF call'.self = "metaversion" THEN metaversion' ELSE new_state'

C37_MemoryAtMostBatch ==
    /\ Le(metaversion.memory, metaversion.batch)
    /\ Le(new_state.memory, new_state.batch)

\* C38 (the counters never decrease): after increment, increment_batch and
\* increment_with the memory version and the batch version are each at
\* least what they were before the call, also for a counter at 2^32 - 1.
C38_CountersNeverDecrease ==
    [][call'.name \in {"increment", "increment_batch", "increment_with"} =>
            /\ Le(SelfBefore.memory, SelfAfter.memory)
            /\ Le(SelfBefore.batch, SelfAfter.batch)]_vars

(***************************************************************************)
(* MessageMap (packages/engine/src/datastore/table/references.rs): the     *)
(* references of the messages of a pool, by recipient.  A message is the   *)
(* list of its recipients; its AgentMessageReference is its position in    *)
(* the pool.                                                               *)
(***************************************************************************)
MaxMessages == 2

Recipients == {"a", "b"}

\* The recipient lists a message can have: none, one or two names.
RecipientLists ==
    {<<>>} \cup {<<n>> : n \in Recipients} \cup {<<p[1], p[2]>> : p \in Recipients \X Recipients}

Pools == UNION {[1 .. n -> RecipientLists] : n \in 0 .. MaxMessages}

\* pool.recipient_iter_all(): the recipients of each message with the
\* reference of the message.
recipient_iter_all(messages) ==
    [i \in DOMAIN messages |-> [recipients |-> messages[i], message_ref |-> i]]

\* HashMap::new
EmptyMap == [n \in {} |-> <<>>]

\* The body of recipients.iter().for_each: push to the entry of the
\* recipient, or insert a new list.
AddReference(acc, recipient, message_ref) ==
    IF recipient \in DOMAIN acc
    THEN [acc EXCEPT ![recipient] = Append(@, message_ref)]
    ELSE [n \in DOMAIN acc \cup {recipient} |->
            IF n = recipient THEN <<message_ref>> ELSE acc[n]]

RECURSIVE AddReferences(_, _, _)
AddReferences(acc, recipients, message_ref) ==
    IF recipients = <<>> THEN acc
    ELSE AddReferences(AddReference(acc, Head(recipients), message_ref),
                       Tail(recipients), message_ref)

\* .fold(HashMap::new, ..) over the items one thread is given.
RECURSIVE fold(_, _)
fold(acc, items) ==
    IF items = <<>> THEN acc
    ELSE fold(AddReferences(acc, Head(items).recipients, Head(items).message_ref),
              Tail(items))

\* The closure of reduce with an occupied entry overwritten by the list of
\* the right operand.
reduce_op_Replace(a, b) ==
    [n \in DOMAIN a \cup DOMAIN b |-> IF n \in DOMAIN b THEN b[n] ELSE a[n]]

\* The closure of .reduce(HashMap::new, |a, b| ..): the lists of b are
\* appended to those of a, or inserted.
reduce_op(a, b) ==
    [n \in DOMAIN a \cup DOMAIN b |->
        IF n \in DOMAIN a /\ n \in DOMAIN b THEN a[n] \o b[n]
        ELSE IF n \in DOMAIN a THEN a[n]
        ELSE b[n]]

RECURSIVE reduce(_)
reduce(maps) ==
    IF maps = <<>> THEN EmptyMap ELSE reduce_op(Head(maps), reduce(Tail(maps)))

RECURSIVE Sorted(_)
Sorted(S) ==
    IF S = {} THEN <<>>
    ELSE LET least == CHOOSE x \in S : \A y \in S : x <= y
         IN  <<least>> \o Sorted(S \ {least})

\* The parts the parallel iterator splits the items into, for a set of
\* positions after which it splits.
Parts(items, cuts) ==
    LET bounds == Sorted({0, Len(items)} \cup cuts)
    IN  [k \in 1 .. Len(bounds) - 1 |-> SubSeq(items, bounds[k] + 1, bounds[k + 1])]

\* MessageMap::new for one way of splitting the pool.
MessageMap_inner(messages, cuts) ==
    LET parts == Parts(recipient_iter_all(messages), cuts)
    IN  reduce([k \in DOMAIN parts |-> fold(EmptyMap, parts[k])])

\* MessageMap::get_msg_refs
get_msg_refs(inner, recipient) ==
    IF recipient \in DOMAIN inner THEN inner[recipient] ELSE <<>>

MessageMapInit ==
    /\ store = EmptyStore
    /\ query = StructuralQuery("entity", {}, zeroed, 0, Interval(0, Inf), "DecisionTime")
    /\ pc = "idle"
    /\ entity_queue = <<>>
    /\ entity_type_queue = <<>>
    /\ property_type_queue = <<>>
    /\ data_type_queue = <<>>
    /\ traversal_context = NewTraversalContext
    /\ subgraph = NewSubgraph
    /\ last_rows = {}
    /\ run = 1
    /\ first_result = NewSubgraph
    /\ failure = NoFailure
    /\ transactions = [w \in Writers |-> NewTransaction]
    /\ reads = NoReads
    /\ metaversion = Metaversion_default
    /\ new_state = Metaversion_default
    /\ pool \in Pools
    /\ message_map = EmptyMap
    /\ sim_packages = <<>>
    /\ overflow_checks = FALSE
    /\ call = NoCall

MessageMap_new ==
    /\ call.name = "none"
    /\ \E cuts \in SUBSET (1 .. Len(pool) - 1) :
        /\ message_map' = MessageMap_inner(pool, cuts)
        /\ call' = [name |-> "MessageMap::new", self |-> "message_map", argument |-> cuts,
                    result |-> "Ok", count |-> 1]
    /\ UNCHANGED <<graph_vars, metaversion, new_state, pool, sim_packages, overflow_checks>>

MessageMap_get_msg_refs ==
    /\ call.name # "none"
    /\ call.count < MaxCalls
    /\ \E recipient \in Recipients \cup {"c"} :
        call' = [name |-> "get_msg_refs", self |-> "message_map", argument |-> recipient,
                 result |-> get_msg_refs(message_map, recipient), count |-> call.count + 1]
    /\ UNCHANGED <<graph_vars, metaversion, new_state, pool, message_map, sim_packages,
                   overflow_checks>>

NextMessageMap ==
    \/ MessageMap_new
    \/ MessageMap_get_msg_refs

SpecMessageMap == MessageMapInit /\ [][NextMessageMap]_vars

\* How often a value occurs in a list.
Count(list, value) == Cardinality({k \in DOMAIN list : list[k] = value})

\* C39 (MessageMap): once MessageMap::new has run, the list of a recipient
\* holds the reference of each message as often as the message names the
\* recipient, however the pool was split among the threads; the map has an
\* entry for the names that occur and for no other; and get_msg_refs
\* returns the list of the recipient, empty for a name no message has.
C39_MessageMap ==
    call.name # "none" =>
        /\ DOMAIN message_map = UNION {Range(pool[i]) : i \in DOMAIN pool}
        /\ \A n \in Recipients \cup {"c"} :
            /\ Len(get_msg_refs(message_map, n)) =
                    Cardinality({p \in (DOMAIN pool) \X (1 .. 2) :
                                    p[2] \in DOMAIN pool[p[1]] /\ pool[p[1]][p[2]] = n})
            /\ \A i \in DOMAIN pool :
                    Count(get_msg_refs(message_map, n), i) = Count(pool[i], n)
        /\ call.name = "get_msg_refs" =>
            /\ call.argument \in DOMAIN message_map => call.result = message_map[call.argument]
            /\ call.argument \notin DOMAIN message_map => call.result = <<>>

\* The pool was split between its two messages; the first names a twice
\* and the second names a as well, and the list of a has three references,
\* two of them to the first message.
C39_Witness ==
    /\ Len(pool) = 2
    /\ pool[1] = <<"a", "a">>
    /\ "a" \in Range(pool[2])
    /\ call.name = "MessageMap::new"
    /\ call.argument = {1}
    /\ Len(get_msg_refs(message_map, "a")) = 3
    /\ Count(get_msg_refs(message_map, "a"), 1) = 2
    /\ get_msg_refs(message_map, "c") = <<>>

(***************************************************************************)
(* get_analysis_source (packages/engine/src/simulation/package/output/     *)
(* packages/analysis/mod.rs): the source of the analysis package among     *)
(* the arguments of the packages of a simulation.                          *)
(***************************************************************************)
MaxPackages == 3

PackageNames == {"analysis", "json_state"}

\* The data of a package is a JSON value: a string or something else.
PackageData ==
    {[kind |-> "String", value |-> "src1"],
     [kind |-> "String", value |-> "src2"],
     [kind |-> "Number", value |-> "1"]}

SimPackageArgs == [name : PackageNames, data : PackageData]

PackageLists == UNION {[1 .. n -> SimPackageArgs] : n \in 0 .. MaxPackages}

\* serde_json::Value::as_str
as_str(data) == IF data.kind = "String" THEN <<data.value>> ELSE <<>>

Ok(value) == [ok |-> TRUE, value |-> value]
Err(message) == [ok |-> FALSE, value |-> message]

\* get_analysis_source going on to the next package when the data of an
\* analysis package is not a string.
RECURSIVE get_analysis_source_SkipsNonString(_)
get_analysis_source_SkipsNonString(packages) ==
    IF packages = <<>> THEN Err("Did not find analysis source")
    ELSE LET args == Head(packages)
         IN  IF args.name = "analysis" /\ as_str(args.data) # <<>>
             THEN Ok(as_str(args.data)[1])
             ELSE get_analysis_source_SkipsNonString(Tail(packages))

\* get_analysis_source: the loop over the packages returns at the first
\* package named "analysis".
RECURSIVE get_analysis_source(_)
get_analysis_source(packages) ==
    IF packages = <<>> THEN Err("Did not find analysis source")
    ELSE LET args == Head(packages)
         IN  IF args.name = "analysis"
             THEN IF as_str(args.data) # <<>>
                  THEN Ok(as_str(args.data)[1])
                  ELSE Err("Analysis source must be a string")
             ELSE get_analysis_source(Tail(packages))

AnalysisInit ==
    /\ store = EmptyStore
    /\ query = StructuralQuery("entity", {}, zeroed, 0, Interval(0, Inf), "DecisionTime")
    /\ pc = "idle"
    /\ entity_queue = <<>>
    /\ entity_type_queue = <<>>
    /\ property_type_queue = <<>>
    /\ data_type_queue = <<>>
    /\ traversal_context = NewTraversalContext
    /\ subgraph = NewSubgraph
    /\ last_rows = {}
    /\ run = 1
    /\ first_result = NewSubgraph
    /\ failure = NoFailure
    /\ transactions = [w \in Writers |-> NewTransaction]
    /\ reads = NoReads
    /\ metaversion = Metaversion_default
    /\ new_state = Metaversion_default
    /\ pool = <<>>
    /\ message_map = EmptyMap
    /\ sim_packages \in PackageLists
    /\ overflow_checks = FALSE
    /\ call = NoCall

Analysis_get_analysis_source ==
    /\ call.name = "none"
    /\ call' = [name |-> "get_analysis_source", self |-> "none", argument |-> sim_packages,
                result |-> get_analysis_source(sim_packages), count |-> 1]
    /\ UNCHANGED <<graph_vars, metaversion, new_state, pool, message_map, sim_packages,
                   overflow_checks>>

NextAnalysis == Analysis_get_analysis_source

SpecAnalysis == AnalysisInit /\ [][NextAnalysis]_vars

\* The positions of the packages named "analysis".
AnalysisPackages == {i \in DOMAIN sim_packages : sim_packages[i].name = "analysis"}

\* C40 (get_analysis_source): the first package named "analysis" decides
\* the result: its data when the data is a string, the error "Analysis
\* source must be a string" when it is not, whatever the later packages
\* are; the error "Did not find analysis source" is returned exactly when
\* no package is named "analysis".
C40_FirstAnalysisPackage ==
    call.name = "get_analysis_source" =>
        /\ AnalysisPackages # {} =>
            LET first == CHOOSE i \in AnalysisPackages : \A j \in AnalysisPackages : i <= j
                data  == sim_packages[first].data
            IN  /\ data.kind = "String" => call.result = [ok |-> TRUE, value |-> data.value]
                /\ data.kind # "String" =>
                    call.result = [ok |-> FALSE, value |-> "Analysis source must be a string"]
        /\ call.result = [ok |-> FALSE, value |-> "Did not find analysis source"]
            <=> AnalysisPackages = {}

\* The first analysis package has a number as its data and a later one a
\* string: the error is returned.
C40_Witness ==
    /\ call.name = "get_analysis_source"
    /\ Len(sim_packages) = 3
    /\ sim_packages[1].name = "json_state"
    /\ sim_packages[2] = [name |-> "analysis", data |-> [kind |-> "Number", value |-> "1"]]
    /\ sim_packages[3] = [name |-> "analysis", data |-> [kind |-> "String", value |-> "src1"]]
    /\ call.result = [ok |-> FALSE, value |-> "Analysis source must be a string"]
====
